---------------------------- MODULE Spec2Model ----------------------------
(***************************************************************************)
(* Model of the wire-protocol client of the MongoDB Perl driver            *)
(* (mongo_link.c): the link (connection) state, mongo_link_say,            *)
(* perl_mongo_master, set_disconnected, and the reply reader               *)
(* mongo_link_hear / get_header / mongo_link_reader.                       *)
(*                                                                         *)
(* and of the BSON encoder and decoder and the Object ID generator         *)
(* (perl_mongo.c).                                                         *)
(*                                                                         *)
(* The specifications share the variables:                                 *)
(*   Spec      the link and the sender (mongo_link_say)                    *)
(*   SpecHear  the link and the reply reader (mongo_link_hear)             *)
(*   SpecLink  the link, non_ssl_connect and set_disconnected              *)
(*   SpecId    concurrent callers of perl_mongo_make_id                    *)
(*   SpecBson  perl_mongo_sv_to_bson and perl_mongo_bson_to_sv             *)
(*   SpecDec   perl_mongo_bson_to_sv on buffers of received documents      *)
(***************************************************************************)
EXTENDS Integers, Sequences, FiniteSets, TLC

VARIABLES
  link,      \* mongo_link + the mongo_server its master points at
  cur,       \* caller: index of the message it is trying to send
  wire,      \* transport double: per message, sender calls that accepted bytes
  wbytes,    \* transport double: per message, bytes accepted in total
  failed,    \* messages for which a write has failed (sender returned -1)
  last,      \* record of the last mongo_link_say call
  pc,        \* position inside mongo_link_hear ("idle": no call in progress)
  cursor,    \* mongo_cursor: header, flag, num, buf
  reqId,     \* the cursor's _request_id attribute
  stream,    \* replies the server has put on the socket, in order
  rd,        \* bytes of the stream consumed so far
  eof,       \* the peer has closed the stream
  loc,       \* locals of the running mongo_link_hear call
  hist,      \* bookkeeping of the running / last mongo_link_hear call
  faults,    \* receiver calls so far that failed, hit the end or came up short
  hears,     \* mongo_link_hear calls so far that went on to read a header
  win32,     \* the build: TRUE when compiled with WIN32 defined
  fds,       \* socket descriptors of the process that are open
  conn,      \* record of the last non_ssl_connect call
  disc,      \* record of the last set_disconnected call
  ithreads,  \* the build: TRUE when perl has USE_ITHREADS
  perl_mongo_inc, \* the process-wide counter of perl_mongo_make_id
  inc_mutex, \* 0 when free, else the thread that holds it
  idpc,      \* per thread: position inside perl_mongo_make_id
  idinc,     \* per thread: the local inc of perl_mongo_make_id
  made,      \* the ids generated so far: <<thread, counter bytes>>
  heap,      \* the Perl containers of the document to encode, by address
  bcfg,      \* the buffer, the build and the ids argument of the encode
  enc,       \* the perl_mongo_sv_to_bson call: done, the buffer after it
  dec,       \* the perl_mongo_bson_to_sv call: done, the value it built
  reenc,     \* the decoded value encoded again: done, the buffer after it
  rbuf       \* a buffer of documents received and the decoder's calls on it

vars == <<link, cur, wire, wbytes, failed, last, pc, cursor, reqId, stream, rd, eof,
          loc, hist, faults, hears, win32, fds, conn, disc,
          ithreads, perl_mongo_inc, inc_mutex, idpc, idinc, made,
          heap, bcfg, enc, dec, reenc, rbuf>>

sayVars  == <<cur, wire, wbytes, failed, last>>
hearVars == <<pc, cursor, reqId, stream, rd, eof, loc, hist, faults, hears>>
lifeVars == <<win32, fds, conn, disc>>
\* Variables the sender and the reply reader do not touch.
idVars   == <<ithreads, perl_mongo_inc, inc_mutex, idpc, idinc, made>>
bsonVars == <<heap, bcfg, enc, dec, reenc, rbuf>>
extVars  == <<lifeVars, idVars, bsonVars>>

---------------------------------------------------------------------------
(* Bounds of the model *)

MaxMsgs == 3
MaxReplies == 2
BigBody == 5000
MaxFaults == 1
MaxHears == 2
MaxFd == 5
MaxRun == 3
NThreads == 3
MaxIds == 4
MaxDepth == 6
\* Decimal digits in one limb of a Math::BigInt (the base is 10^BaseLen).
BaseLen == 2
Slack == 16

(* Program constants *)

INT_32 == 4
INT_64 == 8
MSG_HEADER_SIZE == 16
SUB_HEADER_SIZE == 20
REPLY_HEADER_SIZE == MSG_HEADER_SIZE + 20
MAX_RESPONSE_LEN == 67108864
READ_CHUNK == 4096
FD == 3
DOUBLE_64 == 8
OID_SIZE == 12
BSON_DOUBLE == 1
BSON_STRING == 2
BSON_OBJECT == 3
BSON_ARRAY == 4
BSON_BINARY == 5
BSON_UNDEF == 6
BSON_OID == 7
BSON_BOOL == 8
BSON_DATE == 9
BSON_NULL == 10
BSON_REGEX == 11
BSON_DBREF == 12
BSON_CODE__D == 13
BSON_SYMBOL == 14
BSON_CODE == 15
BSON_INT == 16
BSON_TIMESTAMP == 17
BSON_LONG == 18
BSON_MINKEY == -1
BSON_MAXKEY == 127
GROW_SLOWLY == 1048576
INITIAL_BUF_SIZE == 4096
\* Binary subtypes: generic, and the old form that repeats the length.
SUBTYPE_BINARY == 0
SUBTYPE_BINARY_DEPRECATED == 2

Min(a, b) == IF a < b THEN a ELSE b

---------------------------------------------------------------------------
(* The link *)

\* link->master == 0, or link->master->connected == 0
Disconnected(l) == l.master = 0 \/ l.connected = 0

\* set_disconnected: nothing to do on a disconnected link; otherwise close the
\* socket, clear connected and, for a copy link, drop the master pointer.
set_disconnected(l) ==
  IF l.master = 0 \/ l.connected = 0
  THEN l
  ELSE [l EXCEPT !.connected = 0,
                 !.master = IF l.copy = 1 THEN 0 ELSE l.master]

\* Outcomes of the Perl-level connect method reached through
\* perl_mongo_call_method(link_sv, "connect"): the connection is made, it is
\* not made, or the method dies and the exception leaves the caller.
ConnectOutcomes == {"ok", "fail", "die"}

\* non_ssl_connect: only an established connection stores the socket and sets
\* connected; every failure path leaves the link as it was.
non_ssl_connect(l, co) ==
  IF co = "ok" THEN [l EXCEPT !.socket = FD, !.connected = 1] ELSE l

\* Outcomes of the Perl-level get_master method: no reference, or a reference
\* to the connection holder, whose server may or may not be connected.
MasterOutcomes == {"none", "conn", "disc"}

\* perl_mongo_master(link_sv, auto_reconnect): the socket of the master, or -1.
\* trace lists the connect attempts made; died: the connect method died.
perl_mongo_master(l, auto_reconnect, co, gm) ==
  IF l.master = 1 /\ l.connected = 1
  THEN [link |-> l, sock |-> l.socket, trace |-> <<>>, died |-> FALSE]
  ELSE IF l.copy = 0
  THEN IF auto_reconnect = 1 /\ l.auto_reconnect = 1
       THEN LET l2 == non_ssl_connect(l, co) IN
            [link |-> l2,
             sock |-> IF l2.master = 1 /\ l2.connected = 1 THEN l2.socket ELSE -1,
             trace |-> <<"connect">>,
             died |-> (co = "die")]
       ELSE [link |-> l, sock |-> -1, trace |-> <<>>, died |-> FALSE]
  ELSE IF gm = "none"
       THEN [link |-> [l EXCEPT !.master = 0], sock |-> -1, trace |-> <<>>,
             died |-> FALSE]
       ELSE LET l2 == [l EXCEPT !.master = 1, !.copy = 1, !.socket = FD,
                                !.connected = IF gm = "conn" THEN 1 ELSE 0] IN
            [link |-> l2, sock |-> l2.socket, trace |-> <<>>, died |-> FALSE]

---------------------------------------------------------------------------
(* The sender *)

\* buf->pos - buf->start of message m
MsgLen(m) == 40 + 8 * m

\* non_ssl_send: what send() can return for len bytes: -1, or the number of
\* bytes it accepted, which may be fewer than len.  A socket the link has
\* closed accepts nothing.
SendOutcomes(l, len) ==
  IF l.connected = 0 THEN {-1} ELSE {-1, len \div 2, len}

\* Faulty variant of mongo_link_say: after a failed write it reconnects and
\* retransmits within the same call.
mongo_link_say_retry(l, len, co, gm, so) ==
  LET m == perl_mongo_master(l, 1, co, gm) IN
  IF m.died
  THEN [link |-> m.link, ret |-> -2, trace |-> m.trace, written |-> 0]
  ELSE IF m.sock = -1
  THEN [link |-> m.link, ret |-> -1, trace |-> m.trace, written |-> 0]
  ELSE IF so = -1
  THEN LET l2 == non_ssl_connect(set_disconnected(m.link), "ok") IN
       [link |-> l2, ret |-> len,
        trace |-> m.trace \o <<"send", "connect", "send">>, written |-> len]
  ELSE [link |-> m.link, ret |-> so, trace |-> m.trace \o <<"send">>,
        written |-> so]

\* Faulty variant of mongo_link_say: asks for the master without permission
\* to reconnect.
mongo_link_say_noreconnect(l, len, co, gm, so) ==
  LET m == perl_mongo_master(l, 0, co, gm) IN
  IF m.sock = -1
  THEN [link |-> m.link, ret |-> -1, trace |-> m.trace, written |-> 0]
  ELSE [link |-> IF so = -1 THEN set_disconnected(m.link) ELSE m.link,
        ret |-> so,
        trace |-> m.trace \o <<"send">>,
        written |-> IF so = -1 THEN 0 ELSE so]

\* mongo_link_say: get the master socket (reconnecting if allowed), hand the
\* buffer to the sender once, mark the link disconnected if that returned -1,
\* and return what the sender returned.
\* trace lists, in order, the connect attempts and sender calls of the call;
\* ret is the value returned (-2: the connect method died, nothing returned).
mongo_link_say(l, len, co, gm, so) ==
  LET m == perl_mongo_master(l, 1, co, gm) IN
  IF m.died
  THEN [link |-> m.link, ret |-> -2, trace |-> m.trace, written |-> 0]
  ELSE IF m.sock = -1
  THEN [link |-> m.link, ret |-> -1, trace |-> m.trace, written |-> 0]
  ELSE [link |-> IF so = -1 THEN set_disconnected(m.link) ELSE m.link,
        ret |-> so,
        trace |-> m.trace \o <<"send">>,
        written |-> IF so = -1 THEN 0 ELSE so]

NoSay == [msg |-> 0, len |-> 0, pre |-> 0, post |-> 0, ret |-> 0,
          trace |-> <<>>, written |-> 0]

\* The caller of the reconnect scenario: it sends its messages in order and
\* sends a message again only after mongo_link_say reported -1 (or died).
\* The transport double counts, per message, the sender calls that accepted
\* bytes and the bytes they accepted.
Say ==
  /\ pc = "idle"
  /\ cur <= MaxMsgs
  /\ \E co \in ConnectOutcomes, gm \in MasterOutcomes :
       LET m == perl_mongo_master(link, 1, co, gm) IN
       \E so \in SendOutcomes(m.link, MsgLen(cur)) :
         LET r == mongo_link_say(link, MsgLen(cur), co, gm, so)
             nsend == Cardinality({i \in DOMAIN r.trace : r.trace[i] = "send"})
         IN
         /\ link' = r.link
         /\ last' = [msg |-> cur, len |-> MsgLen(cur),
                     pre |-> IF Disconnected(link) THEN 0 ELSE 1,
                     post |-> IF Disconnected(r.link) THEN 0 ELSE 1,
                     ret |-> r.ret, trace |-> r.trace, written |-> r.written]
         /\ wire' = [wire EXCEPT ![cur] = @ + (IF r.written > 0 THEN 1 ELSE 0)]
         /\ wbytes' = [wbytes EXCEPT ![cur] = @ + r.written]
         /\ failed' = IF r.ret = -1 /\ nsend > 0 THEN failed \cup {cur} ELSE failed
         /\ cur' = IF r.ret < 0 THEN cur ELSE cur + 1
  /\ UNCHANGED hearVars
  /\ UNCHANGED extVars

\* perl_mongo_connect, called by the client's connect method on a link whose
\* master is set: non_ssl_connect with its outcome.
Connect ==
  /\ pc = "idle"
  /\ link.master = 1
  /\ \E co \in {"ok", "fail"} : link' = non_ssl_connect(link, co)
  /\ link' # link
  /\ UNCHANGED sayVars
  /\ UNCHANGED extVars
  /\ UNCHANGED hearVars

---------------------------------------------------------------------------
(* The reply stream *)

\* Replies the server can put on the socket: the declared length, the bytes
\* the reply takes in the stream, and the fields mongo_link_hear looks at.
Reply(length, size, rto, flag, num) ==
  [length |-> length, size |-> size, response_to |-> rto, flag |-> flag,
   num |-> num]

\* A reply to an earlier request, replies to the request the cursor waits for
\* (id 2: documents, a large batch, an empty batch, cursor not found), a reply
\* to a later request, and two headers whose length no reply can have.
Replies ==
  { Reply(REPLY_HEADER_SIZE + BigBody, REPLY_HEADER_SIZE + BigBody, 1, 0, 1),
    Reply(REPLY_HEADER_SIZE + 2, REPLY_HEADER_SIZE + 2, 2, 0, 2),
    Reply(REPLY_HEADER_SIZE + BigBody, REPLY_HEADER_SIZE + BigBody, 2, 0, 3),
    Reply(REPLY_HEADER_SIZE, REPLY_HEADER_SIZE, 2, 0, 0),
    Reply(REPLY_HEADER_SIZE, REPLY_HEADER_SIZE, 2, 1, 0),
    Reply(REPLY_HEADER_SIZE + 2, REPLY_HEADER_SIZE + 2, 3, 0, 1),
    Reply(3, MSG_HEADER_SIZE, 2, 0, 0),
    Reply(MAX_RESPONSE_LEN + 1, MSG_HEADER_SIZE, 2, 0, 0) }

\* What the server has sent: up to MaxReplies replies; a header with an
\* impossible length is the last thing read as a header, so it comes last.
Streams ==
  { st \in UNION { [1..n -> Replies] : n \in 1..MaxReplies } :
      \A i \in 1..(Len(st) - 1) : st[i].length = st[i].size }

RECURSIVE Base(_, _)
\* Offset in the stream of the first byte of reply i.
Base(st, i) == IF i = 1 THEN 0 ELSE Base(st, i - 1) + st[i - 1].size

Total(st) == Base(st, Len(st) + 1)

\* Values a field read can yield at offset off: the field of the reply that
\* has it at that offset, or, when the read does not start on that field,
\* whatever bytes are there.
FieldVals(st, off, fo, name, garbage) ==
  LET at == { i \in 1..Len(st) : Base(st, i) + fo = off } IN
  IF at # {} THEN { st[i][name] : i \in at } ELSE garbage

GarbageLen == {3, REPLY_HEADER_SIZE + 2}
GarbageRto == {2}
GarbageFlag == {0, 1}
GarbageNum == {1}

\* non_ssl_recv: what recv() can return for a request of req bytes: -1, 0 (the
\* peer closed the stream), or the bytes delivered, which may be fewer than
\* req.  A socket the link has closed delivers nothing.  The calls that do
\* not deliver all that is asked for and there are bounded in number by
\* MaxFaults; with nothing to deliver and no fault left the call blocks.
RecvOutcomes(l, st, off, closed, req) ==
  LET avail == IF closed THEN 0 ELSE Total(st) - off
      full == Min(req, avail)
  IN  IF l.connected = 0 THEN {-1}
      ELSE (IF full > 0 THEN {full} ELSE {})
           \cup (IF faults < MaxFaults
                 THEN {-1, 0} \cup (IF req \div 2 > 0 /\ req \div 2 < full
                                    THEN {req \div 2} ELSE {})
                 ELSE {})

\* The call that returned o did not deliver what a healthy stream would.
IsFault(l, st, off, closed, req, o) ==
  /\ l.connected = 1
  /\ (o <= 0 \/ o # Min(req, IF closed THEN 0 ELSE Total(st) - off))

CountFault(req, o) ==
  faults' = faults + (IF IsFault(link, stream, rd, eof, req, o) THEN 1 ELSE 0)

---------------------------------------------------------------------------
(* mongo_link_hear *)

NoBuf == [start |-> 0, cap |-> 0, pos |-> 0, fill |-> 0]

NoCursor == [length |-> 0, response_to |-> 0, flag |-> 0, num |-> 0,
             buf |-> NoBuf]

\* The locals of mongo_link_hear and of the mongo_link_reader call it is in.
NoLoc == [phase |-> "first", num_returned |-> 0, len |-> 0, want |-> 0,
          read |-> 0, num |-> 1]

\* What the call under way (or the last call) started from and ended with.
NoHist == [ret |-> "none", val |-> 0, nret |-> 0, hdrEnd |-> 0,
           buf0 |-> NoBuf, num0 |-> 0, acc |-> 0, trueNum |-> -1]

\* croak: the call ends with message msg and its locals are gone.
Croak(msg) ==
  /\ pc' = "idle"
  /\ loc' = NoLoc
  /\ hist' = [hist EXCEPT !.ret = msg, !.val = 0]

\* Lines 513-552: get the master socket without reconnecting; wait for the
\* socket to become readable; start reading the first header.  A master
\* fetched anew through get_master is another connection: nothing of the old
\* stream is left on it.
HearBegin ==
  /\ pc = "idle"
  /\ hears < MaxHears
  /\ \E gm \in MasterOutcomes, ready \in BOOLEAN :
       LET m == perl_mongo_master(link, 0, "fail", gm)
           h == [hist EXCEPT !.ret = "running", !.val = 0, !.nret = 0,
                             !.hdrEnd = 0, !.buf0 = cursor.buf,
                             !.num0 = cursor.num, !.trueNum = -1]
           fresh == Disconnected(link) /\ ~Disconnected(m.link)
       IN
       /\ loc' = NoLoc
       /\ IF fresh
          THEN stream' = <<>> /\ rd' = 0 /\ eof' = FALSE
          ELSE UNCHANGED <<stream, rd, eof>>
       /\ IF m.sock = -1
          THEN /\ link' = set_disconnected(m.link)
               /\ pc' = "idle"
               /\ hist' = [h EXCEPT !.ret = "not connected (during receive)"]
          ELSE /\ link' = m.link
               /\ IF ready
                  THEN pc' = "gh_length" /\ hist' = h
                  ELSE pc' = "idle" /\ hist' = [h EXCEPT !.ret = "recv timed out"]
       /\ hears' = IF m.sock # -1 /\ ready THEN hears + 1 ELSE hears
  /\ UNCHANGED <<cursor, reqId>>
  /\ UNCHANGED faults
  /\ UNCHANGED sayVars
  /\ UNCHANGED extVars

\* Faulty variant of header_length_ok: the lower bound is missing.
header_length_ok_nolower(length) == length <= MAX_RESPONSE_LEN

\* Line 484, negated: the length is one a reply can have.
header_length_ok(length) ==
  ~(length > MAX_RESPONSE_LEN \/ length < REPLY_HEADER_SIZE)

HeaderCroak == IF loc.phase = "first" THEN "invalid response header"
               ELSE "invalid header received"

\* get_header, lines 475-487: read the length; a read of other than 4 bytes
\* or a length out of bounds disconnects the link and fails.
GetHeaderLength ==
  /\ pc = "gh_length"
  /\ \E o \in RecvOutcomes(link, stream, rd, eof, INT_32) :
       /\ CountFault(INT_32, o)
       /\ IF o # INT_32
          THEN /\ rd' = rd + (IF o > 0 THEN o ELSE 0)
               /\ eof' = (eof \/ o = 0)
               /\ \E v \in (IF o > 0 THEN GarbageLen ELSE {cursor.length}) :
                    cursor' = [cursor EXCEPT !.length = v]
               /\ link' = set_disconnected(link)
               /\ Croak(HeaderCroak)
          ELSE \E v \in FieldVals(stream, rd, 0, "length", GarbageLen) :
               /\ rd' = rd + INT_32
               /\ eof' = eof
               /\ cursor' = [cursor EXCEPT !.length = v]
               /\ IF header_length_ok(v)
                  THEN /\ pc' = "gh_request_id"
                       /\ UNCHANGED <<link, hist, loc>>
                  ELSE /\ link' = set_disconnected(link)
                       /\ Croak(HeaderCroak)
  /\ UNCHANGED <<reqId, stream>>
  /\ UNCHANGED hears
  /\ UNCHANGED sayVars
  /\ UNCHANGED extVars

NextHeaderPc == [gh_request_id |-> "gh_response_to",
                 gh_response_to |-> "gh_op",
                 gh_op |-> "loop_test"]

\* get_header, lines 489-499: read request_id, response_to and op; a read of
\* other than 4 bytes fails (and leaves the link as it is).
GetHeaderField ==
  /\ pc \in {"gh_request_id", "gh_response_to", "gh_op"}
  /\ \E o \in RecvOutcomes(link, stream, rd, eof, INT_32) :
       /\ CountFault(INT_32, o)
       /\ rd' = rd + (IF o > 0 THEN o ELSE 0)
       /\ eof' = (eof \/ o = 0)
       /\ IF o # INT_32
          THEN /\ Croak(HeaderCroak)
               /\ \E v \in (IF o > 0 /\ pc = "gh_response_to" THEN GarbageRto
                            ELSE {cursor.response_to}) :
                    cursor' = [cursor EXCEPT !.response_to = v]
          ELSE /\ pc' = NextHeaderPc[pc]
               /\ loc' = loc
               /\ hist' = IF pc = "gh_op" THEN [hist EXCEPT !.hdrEnd = rd']
                          ELSE hist
               /\ IF pc = "gh_response_to"
                  THEN \E v \in FieldVals(stream, rd, 8, "response_to", GarbageRto) :
                         cursor' = [cursor EXCEPT !.response_to = v]
                  ELSE cursor' = cursor
  /\ UNCHANGED <<link, reqId, stream>>
  /\ UNCHANGED hears
  /\ UNCHANGED sayVars
  /\ UNCHANGED extVars

\* Faulty variant of missed_response: the comparison is turned around.
missed_response_below(request_id, response_to) == request_id > response_to

\* Line 558: the reply answers a later request than the one waited for.
missed_response(request_id, response_to) == request_id < response_to

\* mongo_link_reader is entered for len bytes.
StartReader(l, len) == [l EXCEPT !.want = len, !.read = 0, !.num = 1]

\* Lines 554-563: the loop test.  A matching reply goes on to the sub-header;
\* a missed response croaks; any other reply is to be thrown out.
LoopTest ==
  /\ pc = "loop_test"
  /\ IF reqId = cursor.response_to
     THEN /\ pc' = "sub_flag"
          /\ UNCHANGED <<loc, hist>>
     ELSE IF missed_response(reqId, cursor.response_to)
     THEN Croak("missed the response we wanted")
     ELSE /\ pc' = "drain_sub"
          /\ loc' = [loc EXCEPT !.len = cursor.length - 36]
          /\ UNCHANGED hist
  /\ UNCHANGED <<link, cursor, reqId, stream, rd, eof>>
  /\ UNCHANGED faults
  /\ UNCHANGED hears
  /\ UNCHANGED sayVars
  /\ UNCHANGED extVars

\* Faulty variant of drain_first_chunk: the body is thrown out in one read.
drain_first_chunk_whole(l) == StartReader([l EXCEPT !.len = 0], l.len)

\* Lines 573-576: the next chunk of the body to throw out, 4096 bytes at most.
drain_first_chunk(l) ==
  LET t == Min(l.len, READ_CHUNK) IN StartReader([l EXCEPT !.len = @ - t], t)

\* Lines 565-576: one receiver call for the 20 sub-header bytes of the reply to
\* throw out (only -1 is an error), then the first chunk of its body.
DrainSubHeader ==
  /\ pc = "drain_sub"
  /\ \E o \in RecvOutcomes(link, stream, rd, eof, SUB_HEADER_SIZE) :
       /\ CountFault(SUB_HEADER_SIZE, o)
       /\ IF o = -1
          THEN /\ Croak("couldn't get header response to throw out")
               /\ UNCHANGED <<rd, eof>>
          ELSE /\ rd' = rd + o
               /\ eof' = (eof \/ o = 0)
               /\ pc' = "drain_body"
               /\ loc' = drain_first_chunk(loc)
               /\ UNCHANGED hist
  /\ UNCHANGED <<link, cursor, reqId, stream>>
  /\ UNCHANGED hears
  /\ UNCHANGED sayVars
  /\ UNCHANGED extVars

\* The loop of mongo_link_reader (line 649) goes round once more.
ReaderLoops == loc.read < loc.want /\ loc.num > 0

BodyCroak == IF pc = "drain_body" THEN "couldn't get response to throw out"
             ELSE "error getting database response"

\* mongo_link_reader, lines 649-661: one turn of the loop, a receiver call for
\* at most 4096 bytes.  In mongo_link_hear's last call the bytes land in the
\* cursor's buffer.
ReaderRecv ==
  /\ pc \in {"drain_body", "read_body"}
  /\ ReaderLoops
  /\ \E o \in RecvOutcomes(link, stream, rd, eof,
                           Min(loc.want - loc.read, READ_CHUNK)) :
       /\ CountFault(Min(loc.want - loc.read, READ_CHUNK), o)
       /\ IF o < 0
          THEN /\ Croak(BodyCroak)
               /\ UNCHANGED <<rd, eof, cursor>>
          ELSE /\ rd' = rd + o
               /\ eof' = (eof \/ o = 0)
               /\ loc' = [loc EXCEPT !.read = @ + o, !.num = o]
               /\ cursor' = IF pc = "read_body"
                            THEN [cursor EXCEPT !.buf.fill = @ + o]
                            ELSE cursor
               /\ UNCHANGED <<pc, hist>>
  /\ UNCHANGED <<link, reqId, stream>>
  /\ UNCHANGED hears
  /\ UNCHANGED sayVars
  /\ UNCHANGED extVars

\* Lines 572-589: mongo_link_reader has returned what it read; the do-while
\* goes on with the next chunk, or the next header is read.
DrainNext ==
  /\ pc = "drain_body"
  /\ ~ReaderLoops
  /\ IF loc.len > 0
     THEN /\ loc' = drain_first_chunk(loc)
          /\ UNCHANGED pc
     ELSE /\ pc' = "gh_length"
          /\ loc' = [loc EXCEPT !.phase = "loop"]
  /\ UNCHANGED <<link, cursor, reqId, stream, rd, eof, hist>>
  /\ UNCHANGED faults
  /\ UNCHANGED hears
  /\ UNCHANGED sayVars
  /\ UNCHANGED extVars

SubSize == [sub_flag |-> INT_32, sub_cursor_id |-> INT_64,
            sub_start |-> INT_32, sub_num |-> INT_32]

NextSubPc == [sub_flag |-> "sub_cursor_id", sub_cursor_id |-> "sub_start",
              sub_start |-> "sub_num", sub_num |-> "flag_check"]

\* Lines 593-600: flag, cursor_id, start and num_returned are read with one
\* receiver call each; only -1 is an error.  A call that delivers nothing
\* leaves the field as it was.
SubHeaderField ==
  /\ pc \in {"sub_flag", "sub_cursor_id", "sub_start", "sub_num"}
  /\ \E o \in RecvOutcomes(link, stream, rd, eof, SubSize[pc]) :
       /\ CountFault(SubSize[pc], o)
       /\ IF o = -1
          THEN /\ Croak("strerror")
               /\ UNCHANGED <<rd, eof, cursor>>
          ELSE /\ rd' = rd + o
               /\ eof' = (eof \/ o = 0)
               /\ pc' = NextSubPc[pc]
               /\ IF pc = "sub_flag" /\ o > 0
                  THEN \E v \in (IF o = INT_32
                                 THEN FieldVals(stream, rd, 16, "flag", GarbageFlag)
                                 ELSE GarbageFlag) :
                         cursor' = [cursor EXCEPT !.flag = v]
                  ELSE cursor' = cursor
               /\ IF pc = "sub_num" /\ o > 0
                  THEN \E v \in (IF o = INT_32
                                 THEN FieldVals(stream, rd, 32, "num", GarbageNum)
                                 ELSE GarbageNum) :
                         /\ loc' = [loc EXCEPT !.num_returned = v]
                         /\ hist' = [hist EXCEPT !.trueNum =
                                       IF o = INT_32 /\ \E i \in 1..Len(stream) :
                                            Base(stream, i) + 32 = rd
                                       THEN v ELSE -1]
                  ELSE UNCHANGED <<loc, hist>>
  /\ UNCHANGED <<link, reqId, stream>>
  /\ UNCHANGED hears
  /\ UNCHANGED sayVars
  /\ UNCHANGED extVars

\* Lines 614-626: the buffer is made to hold n bytes: a new one if there is
\* none, a larger one if it is too small; pos goes back to start.
create_buf(buf, n) ==
  IF buf.start = 0 THEN [start |-> 1, cap |-> n, pos |-> 0, fill |-> 0]
  ELSE IF buf.cap < n THEN [start |-> 1, cap |-> n, pos |-> 0, fill |-> 0]
  ELSE [buf EXCEPT !.pos = 0, !.fill = 0]

\* Faulty variant of cursor_not_found: the count is kept.
cursor_not_found_keeps(c) == c

\* Line 606: the cursor's count is reset.
cursor_not_found(c) == [c EXCEPT !.num = 0]

\* Lines 603-626: a reply flagged "cursor not found" resets the count and
\* croaks; otherwise the buffer is made ready for the reply's body.
FlagCheck ==
  /\ pc = "flag_check"
  /\ IF cursor.flag % 2 = 1
     THEN /\ cursor' = cursor_not_found(cursor)
          /\ pc' = "idle"
          /\ loc' = NoLoc
          /\ hist' = [hist EXCEPT !.ret = "cursor not found", !.val = 0,
                                  !.acc = 0]
     ELSE /\ cursor' = [cursor EXCEPT
                          !.length = @ - INT_32 * 9,
                          !.buf = create_buf(@, cursor.length - INT_32 * 9)]
          /\ pc' = "read_body"
          /\ loc' = StartReader(loc, cursor.length - INT_32 * 9)
          /\ UNCHANGED hist
  /\ UNCHANGED <<link, reqId, stream, rd, eof>>
  /\ UNCHANGED faults
  /\ UNCHANGED hears
  /\ UNCHANGED sayVars
  /\ UNCHANGED extVars

\* Faulty variant of hear_result: the count is not added.
hear_result_noadd(c, num_returned) ==
  [cursor |-> c, val |-> IF num_returned > 0 THEN 1 ELSE 0]

\* Lines 637-638: the count grows by num_returned; the value returned tells
\* whether the batch holds documents.
hear_result(c, num_returned) ==
  [cursor |-> [c EXCEPT !.num = @ + num_returned],
   val |-> IF num_returned > 0 THEN 1 ELSE 0]

\* Lines 628-638: mongo_link_reader has returned what it read (not -1).
BodyDone ==
  /\ pc = "read_body"
  /\ ~ReaderLoops
  /\ LET r == hear_result(cursor, loc.num_returned) IN
       /\ cursor' = r.cursor
       /\ hist' = [hist EXCEPT !.ret = "ok", !.val = r.val,
                               !.nret = loc.num_returned,
                               !.acc = @ + loc.num_returned]
  /\ pc' = "idle"
  /\ loc' = NoLoc
  /\ UNCHANGED <<link, reqId, stream, rd, eof>>
  /\ UNCHANGED faults
  /\ UNCHANGED hears
  /\ UNCHANGED sayVars
  /\ UNCHANGED extVars

---------------------------------------------------------------------------
(* Connecting and disconnecting *)

\* Descriptors socket() can hand out; it returns the lowest one not open.
Descriptors == FD..MaxFd

\* errno values of a failed socket(), connect(), select() or read(), and
\* h_errno values of a failed gethostbyname(): positive integers.
Errnos == {24, 111}
HErrnos == {1, 2}

\* Ways through non_ssl_connect:
\*   nosock     socket() failed
\*   noresolve  mongo_link_sockaddr failed (gethostbyname)
\*   refused    connect() failed with an errno other than EINPROGRESS
\*   timeout    mongo_link_timeout returned -1
\*   selecterr  mongo_link_timeout returned an errno
\*   peerfail   getpeername() failed after the wait
\*   async      connect() was in progress and the wait and getpeername passed
\*   direct     connect() returned 0
ConnectPaths ==
  {"nosock", "noresolve", "refused", "timeout", "selecterr", "peerfail",
   "async", "direct"}

Established == {"async", "direct"}

\* mongo_link_timeout as non_ssl_connect sees it: 0 when the socket became
\* ready, -1 when the time ran out, the errno of a failed select() otherwise.
mongo_link_timeout(path, e) ==
  IF path = "timeout" THEN -1 ELSE IF path = "selecterr" THEN e ELSE 0

\* The descriptor a failure path of non_ssl_connect closes: close(sock), and
\* under WIN32 closesocket(link->master->socket).
failure_close(l, w32, sock) == IF w32 THEN l.socket ELSE sock

\* non_ssl_connect on link l with sock the descriptor socket() returns (-1:
\* none), along path with errno e and h_errno h: the value returned, the link
\* afterwards, the descriptor opened and the descriptors closed.
non_ssl_connect_call(l, w32, sock, path, e, h) ==
  IF path = "nosock" \/ sock = -1
  THEN [ret |-> e, link |-> l, opened |-> -1, closed |-> {}]
  ELSE IF path = "noresolve"
  THEN [ret |-> -h, link |-> l, opened |-> sock,
        closed |-> {failure_close(l, w32, sock)}]
  ELSE IF path \in {"refused", "peerfail"}
  THEN [ret |-> e, link |-> l, opened |-> sock,
        closed |-> {failure_close(l, w32, sock)}]
  ELSE IF mongo_link_timeout(path, e) # 0
  THEN [ret |-> IF mongo_link_timeout(path, e) = -1 THEN 0
                ELSE mongo_link_timeout(path, e),
        link |-> l, opened |-> sock,
        closed |-> {failure_close(l, w32, sock)}]
  ELSE [ret |-> 0, link |-> [l EXCEPT !.socket = sock, !.connected = 1],
        opened |-> sock, closed |-> {}]

NoConn == [path |-> "none", ret |-> 0, pre |-> 0, sock |-> -1, closed |-> {}]

\* perl_mongo_connect on a link without SSL: one non_ssl_connect call.  The
\* link's master is set (non_ssl_connect reads link->master->host).
LinkConnect ==
  /\ link.master = 1
  /\ \E path \in ConnectPaths, e \in Errnos, h \in HErrnos :
       LET free == Descriptors \ fds
           sock == IF free = {} THEN -1
                   ELSE CHOOSE d \in free : \A d2 \in free : d <= d2
           r == non_ssl_connect_call(link, win32, sock, path, e, h)
       IN
       /\ (sock = -1 => path = "nosock")
       /\ link' = r.link
       /\ fds' = (fds \cup (IF r.opened = -1 THEN {} ELSE {r.opened})) \ r.closed
       /\ conn' = [path |-> path, ret |-> r.ret, pre |-> link,
                   sock |-> r.opened, closed |-> r.closed]
       /\ disc' = [disc EXCEPT !.run = 0]
  /\ UNCHANGED win32
  /\ UNCHANGED sayVars
  /\ UNCHANGED hearVars
  /\ UNCHANGED <<idVars, bsonVars>>

\* Faulty variant of set_disconnected_closes: close() without the check.
set_disconnected_closes_always(l) == {l.socket}

\* set_disconnected: the descriptors it closes.
set_disconnected_closes(l) ==
  IF l.master = 0 \/ l.connected = 0 THEN {} ELSE {l.socket}

\* set_disconnected: the number of Perl methods it calls (_master, for a
\* copy link it disconnects).
set_disconnected_callbacks(l) ==
  IF l.master = 0 \/ l.connected = 0 THEN 0
  ELSE IF l.copy = 1 THEN 1 ELSE 0

NoDisc == [run |-> 0, first |-> 0, pre |-> 0, closed |-> {}, callbacks |-> 0,
           fds0 |-> {}]

\* A call of set_disconnected.  run counts the calls made in a row, first is
\* the link before the first of them, pre and fds0 the link and the open
\* descriptors before this one.
LinkDisconnect ==
  /\ disc.run < MaxRun
  /\ link' = set_disconnected(link)
  /\ fds' = fds \ set_disconnected_closes(link)
  /\ disc' = [run |-> disc.run + 1,
              first |-> IF disc.run = 0 THEN link ELSE disc.first,
              pre |-> link,
              closed |-> set_disconnected_closes(link),
              callbacks |-> set_disconnected_callbacks(link),
              fds0 |-> fds]
  /\ UNCHANGED <<win32, conn>>
  /\ UNCHANGED sayVars
  /\ UNCHANGED hearVars
  /\ UNCHANGED <<idVars, bsonVars>>

---------------------------------------------------------------------------
(* perl_mongo_make_id *)

\* Threads that can be inside perl_mongo_make_id at once: interpreter threads
\* exist only in a perl built with USE_ITHREADS.
Threads == IF ithreads THEN 1..NThreads ELSE {1}

\* Faulty variant of mutex_free: the lock is never waited for.
mutex_free_always(m) == TRUE

\* MUTEX_LOCK returns when the mutex is free.
mutex_free(m) == m = 0

\* The three counter bytes of the id: data[9] = I[2], data[10] = I[1],
\* data[11] = I[0].
counter_bytes(inc) ==
  <<(inc \div 65536) % 256, (inc \div 256) % 256, inc % 256>>

\* What perl_mongo_make_id leaves alone.
IdFrame == UNCHANGED <<link, sayVars, hearVars, lifeVars, bsonVars>>

\* A thread enters perl_mongo_make_id and, in a build with USE_ITHREADS, takes
\* the lock (lines 886-888).
IdLock(t) ==
  /\ idpc[t] = "out"
  /\ Len(made) + Cardinality({u \in Threads : idpc[u] # "out"}) < MaxIds
  /\ ithreads => mutex_free(inc_mutex)
  /\ inc_mutex' = IF ithreads THEN t ELSE inc_mutex
  /\ idpc' = [idpc EXCEPT ![t] = "read"]
  /\ UNCHANGED <<ithreads, perl_mongo_inc, idinc, made>>
  /\ IdFrame

\* inc = perl_mongo_inc++ (line 889): the read.
IdRead(t) ==
  /\ idpc[t] = "read"
  /\ idinc' = [idinc EXCEPT ![t] = perl_mongo_inc]
  /\ idpc' = [idpc EXCEPT ![t] = "write"]
  /\ UNCHANGED <<ithreads, perl_mongo_inc, inc_mutex, made>>
  /\ IdFrame

\* inc = perl_mongo_inc++ (line 889): the store of the incremented value.
IdWrite(t) ==
  /\ idpc[t] = "write"
  /\ perl_mongo_inc' = idinc[t] + 1
  /\ idpc' = [idpc EXCEPT ![t] = "unlock"]
  /\ UNCHANGED <<ithreads, inc_mutex, idinc, made>>
  /\ IdFrame

\* MUTEX_UNLOCK (lines 890-892).
IdUnlock(t) ==
  /\ idpc[t] = "unlock"
  /\ inc_mutex' = IF inc_mutex = t THEN 0 ELSE inc_mutex
  /\ idpc' = [idpc EXCEPT ![t] = "fill"]
  /\ UNCHANGED <<ithreads, perl_mongo_inc, idinc, made>>
  /\ IdFrame

\* Lines 894-918: the id is filled in from time, machine, pid and inc.
IdFill(t) ==
  /\ idpc[t] = "fill"
  /\ made' = Append(made, <<t, counter_bytes(idinc[t])>>)
  /\ idpc' = [idpc EXCEPT ![t] = "out"]
  /\ UNCHANGED <<ithreads, perl_mongo_inc, inc_mutex, idinc>>
  /\ IdFrame

---------------------------------------------------------------------------
(* BSON: bytes, Perl values and the output buffer *)

\* MONGO_32 / MONGO_64 followed by memcpy: little-endian bytes.
LE32(n) ==
  <<n % 256, (n \div 256) % 256, (n \div 65536) % 256, (n \div 16777216) % 256>>

LE64(n) == LE32(n) \o LE32((n \div 65536) \div 65536)

\* MONGO_32p: the little-endian signed int at bytes[i .. i+3].
RdLE32(bytes, i) ==
  bytes[i] + 256 * bytes[i + 1] + 65536 * bytes[i + 2]
  + 16777216 * (IF bytes[i + 3] >= 128 THEN bytes[i + 3] - 256 ELSE bytes[i + 3])

\* MONGO_64p: the little-endian signed int at bytes[i .. i+7].
RdLE64(bytes, i) ==
  IF RdLE32(bytes, i + 4) = 0 /\ bytes[i + 3] < 128 THEN RdLE32(bytes, i)
  ELSE IF RdLE32(bytes, i + 4) = -1 /\ bytes[i + 3] >= 128
  THEN RdLE32(bytes, i)
  ELSE RdLE32(bytes, i) + 65536 * 65536 * RdLE32(bytes, i + 4)

\* Key strings, as their bytes: "_id", "a", "a.b", "" and "a\0b".
K_id == <<95, 105, 100>>
K_a == <<97>>
K_dot == <<97, 46, 98>>
K_empty == <<>>
K_nul == <<97, 0, 98>>

\* A Perl value: t is what the encoder's tests tell apart, n a number, s a
\* byte string, items the <<key, value>> pairs of a container (or of a code
\* scope) in iteration order.
V(t, n, s, items) == [t |-> t, n |-> n, s |-> s, items |-> items]

VNull == V("undef", 0, <<>>, <<>>)
VInt(n) == V("IV", n, <<>>, <<>>)
VDouble(n) == V("NV", n, <<>>, <<>>)
VStr(s) == V("PV", 0, s, <<>>)
VBool(n) == V("boolean", n, <<>>, <<>>)
VBin(subtype, s) == V("MongoDB::BSON::Binary", subtype, s, <<>>)
VOid(hex) == V("MongoDB::OID", 0, hex, <<>>)
\* MongoDB::Code; n = 1 when its scope is a hash reference (items), 0 when
\* the scope method returns undef.
VCode(code, n, items) == V("MongoDB::Code", n, code, items)
\* Math::BigInt: n is the sign (1, or -1 for "-"), items the array "value":
\* the limbs, least significant first, each an integer or a string of digits.
VBig(n, limbs) ==
  V("Math::BigInt", n, <<>>, [i \in 1..Len(limbs) |-> <<<<48 + i - 1>>, limbs[i]>>])
\* A reference to the container at address n of the heap.
VRef(n) == V("ref", n, <<>>, <<>>)
\* A container: "HV" (hash), "AV" (array) or "Tie::IxHash"; n is its address.
VCont(t, n, items) == V(t, n, <<>>, items)

ContainerTypes == {"HV", "AV", "Tie::IxHash"}

\* The container a value refers to.
SvRV(hp, v) == IF v.t = "ref" THEN hp[v.n] ELSE v

\* SvROK on a value that the encoder takes for a container.
SvROK(hp, v) == SvRV(hp, v).t \in ContainerTypes

\* SvPV_nolen(newSViv(i)): the decimal digits of i.
RECURSIVE Decimal(_)
Decimal(i) ==
  IF i < 10 THEN <<48 + i>> ELSE Decimal(i \div 10) \o <<48 + (i % 10)>>

\* The output buffer while one document is encoded.  base is buf->start,
\* total is buf->end - buf->start, used0 the bytes the buffer held before the
\* document, bytes the bytes written since; pos is base + used0 + Len(bytes).
\* moves: Renew hands out another block.  err: the croak that ended the
\* encode.  wild: a write went outside the bytes of this document.  over: a
\* write left pos beyond end.  tight: a resize left fewer bytes than asked
\* for, or a smaller buffer.
\* ids is the caller's ids array, inc is perl_mongo_inc, int64 the build
\* (USE_64_BIT_INT).
NewBuf(base, total, used0, moves, inc, int64) ==
  [base |-> base, total |-> total, used0 |-> used0, moves |-> moves,
   bytes |-> <<>>, err |-> "", wild |-> FALSE, over |-> FALSE, tight |-> FALSE,
   resizes |-> 0,
   ids |-> <<>>, inc |-> inc, int64 |-> int64]

BUF_REMAINING(b) == b.total - b.used0 - Len(b.bytes)

croak(b, msg) == IF b.err # "" THEN b ELSE [b EXCEPT !.err = msg]

RECURSIVE grow_total(_, _, _)
\* while (total-used < size) total += size;
grow_total(total, used, size) ==
  IF total - used < size THEN grow_total(total + size, used, size) ELSE total

\* perl_mongo_resize_buf
perl_mongo_resize_buf(b, size) ==
  LET used == b.used0 + Len(b.bytes)
      t0 == IF b.total < GROW_SLOWLY THEN b.total * 2
            ELSE b.total + INITIAL_BUF_SIZE
  IN [b EXCEPT !.total = grow_total(t0, used, size),
               !.base = IF b.moves THEN b.base + b.total + INT_64 ELSE b.base,
               !.resizes = @ + 1,
               !.tight = @ \/ grow_total(t0, used, size) - used < size
                           \/ grow_total(t0, used, size) < b.total]

\* memcpy(buf->pos, bs, n); buf->pos += n
advance(b, bs) ==
  [b EXCEPT !.bytes = @ \o bs,
            !.over = @ \/ (b.used0 + Len(b.bytes) + Len(bs) > b.total)]

\* The common shape of the perl_mongo_serialize_* functions: make room when
\* BUF_REMAINING <= need, copy, advance pos.
serialize(b, bs, need) ==
  IF b.err # "" THEN b
  ELSE LET b1 == IF BUF_REMAINING(b) <= need
                 THEN perl_mongo_resize_buf(b, need) ELSE b
       IN advance(b1, bs)

perl_mongo_serialize_byte(b, x) == serialize(b, <<x % 256>>, 1)
perl_mongo_serialize_bytes(b, str) == serialize(b, str, Len(str))
perl_mongo_serialize_string(b, str) == serialize(b, str \o <<0>>, Len(str) + 1)
perl_mongo_serialize_int(b, n) == serialize(b, LE32(n), INT_32)
perl_mongo_serialize_long(b, n) == serialize(b, LE64(n), INT_64)
set_type(b, type) == perl_mongo_serialize_byte(b, type)
perl_mongo_serialize_null(b) == perl_mongo_serialize_byte(b, 0)

\* IEEE 754 bytes of the doubles 0.0 and 1.0.
perl_mongo_serialize_double(b, n) ==
  serialize(b, IF n = 0 THEN <<0, 0, 0, 0, 0, 0, 0, 0>>
               ELSE <<0, 0, 0, 0, 0, 0, 240, 63>>, DOUBLE_64)

\* The hex digit value as perl_mongo_serialize_oid computes it (805-807).
unhex(c) ==
  LET d1 == IF c >= 97 /\ c <= 102 THEN c - 87 ELSE c
      d2 == IF d1 >= 65 /\ d1 <= 70 THEN d1 - 55 ELSE d1
  IN  IF d2 >= 48 /\ d2 <= 57 THEN d2 - 48 ELSE d2

\* perl_mongo_serialize_oid: 24 hex digits to 12 bytes.
perl_mongo_serialize_oid(b, id) ==
  serialize(b, [i \in 1..OID_SIZE |->
                  (unhex(id[2 * i - 1]) * 16 + unhex(id[2 * i])) % 256],
            OID_SIZE)

\* perl_mongo_make_oid: 12 bytes to 24 hex digits, ra_hex[x >> 4], ra_hex[x & 15].
ra_hex(x) == IF x < 10 THEN 48 + x ELSE 87 + x

perl_mongo_make_oid(twelve) ==
  [i \in 1..(2 * OID_SIZE) |->
     IF i % 2 = 1 THEN ra_hex(twelve[(i + 1) \div 2] \div 16)
     ELSE ra_hex(twelve[i \div 2] % 16)]

\* perl_mongo_serialize_bindata
perl_mongo_serialize_bindata(b, subtype, bytes) ==
  LET b1 == IF subtype = SUBTYPE_BINARY_DEPRECATED
            THEN perl_mongo_serialize_int(
                   perl_mongo_serialize_byte(
                     perl_mongo_serialize_int(b, Len(bytes) + 4), subtype),
                   Len(bytes))
            ELSE perl_mongo_serialize_byte(
                   perl_mongo_serialize_int(b, Len(bytes)), subtype)
  IN perl_mongo_serialize_bytes(b1, bytes)

\* A C string: the bytes at p up to the terminating NUL (strlen of them).
RECURSIVE cstring(_, _)
cstring(bytes, p) ==
  IF p > Len(bytes) \/ bytes[p] = 0 THEN <<>>
  ELSE <<bytes[p]>> \o cstring(bytes, p + 1)

\* strchr(str, c)
strchr(str, c) == \E i \in 1..Len(str) : str[i] = c

\* Faulty variant of key_rejected: "." is rejected in every mode.
key_rejected_always(str, is_insert) == strchr(str, 46)

\* perl_mongo_serialize_key: is_insert && strchr(str, '.')
key_rejected(str, is_insert) == is_insert /\ strchr(str, 46)

\* perl_mongo_serialize_key, with special_char unset or "$".  str is a C
\* string: what follows a NUL in the key is not seen.
perl_mongo_serialize_key(b, str, is_insert) ==
  IF b.err # "" THEN b
  ELSE LET cs == cstring(str, 1)
           b1 == IF BUF_REMAINING(b) <= Len(cs) + 1
                 THEN perl_mongo_resize_buf(b, Len(cs) + 1) ELSE b
       IN IF cs = <<>> THEN croak(b1, "empty key name")
          ELSE IF key_rejected(cs, is_insert)
          THEN croak(b1, "inserts cannot contain the . character")
          ELSE advance(b1, cs \o <<0>>)

\* buf->pos += INT_32: room for a size, not written yet.
skip_size(b) ==
  IF b.err # "" THEN b ELSE advance(b, <<170, 170, 170, 170>>)

\* Faulty variant of size_addr: the address taken before the body was written.
size_addr_stale(b0, b, start) == b0.base + start

\* buf->start + start, taken when the size is written; b0 is the buffer as it
\* was when start was recorded.
size_addr(b0, b, start) == b.base + start

\* perl_mongo_serialize_size(start, buf): total = buf->pos - start, stored in
\* the four bytes at start.
perl_mongo_serialize_size(b, addr) ==
  IF b.err # "" THEN b
  ELSE LET off == addr - b.base - b.used0
           total == (b.base + b.used0 + Len(b.bytes)) - addr
       IN IF off >= 0 /\ off + INT_32 <= Len(b.bytes) /\ total >= 0
          THEN [b EXCEPT !.bytes =
                  [i \in 1..Len(b.bytes) |->
                     IF i > off /\ i <= off + INT_32
                     THEN LE32(total)[i - off] ELSE b.bytes[i]]]
          ELSE [b EXCEPT !.wild = TRUE]

\* The size of a code value with its scope, stored at buf->start + start.
code_size(b, b0, start) == perl_mongo_serialize_size(b, size_addr(b0, b, start))

\* The end of a document: the trailing NUL, then the size stored at
\* buf->start + start.  b0 is the buffer as it was when start was recorded.
end_document(b, b0, start) ==
  LET b1 == perl_mongo_serialize_null(b)
  IN perl_mongo_serialize_size(b1, size_addr(b0, b1, start))

\* The nine bytes of an id that do not come from the counter: time, machine
\* and pid.
IdPrefix == <<90, 171, 205, 239, 1, 2, 3, 4, 5>>

\* perl_mongo_make_id, for one caller: the twelve bytes.
make_id_bytes(inc) == IdPrefix \o counter_bytes(inc)

\* perl_mongo_prep: generate an id, write it as the OID field "_id" and push
\* the MongoDB::OID object onto ids.
perl_mongo_prep(b) ==
  IF b.err # "" THEN b
  ELSE LET id_s == make_id_bytes(b.inc)
           b1 == perl_mongo_serialize_bytes(
                   perl_mongo_serialize_key(set_type(b, BSON_OID), K_id, FALSE),
                   id_s)
       IN IF b1.err # "" THEN b1
          ELSE [b1 EXCEPT !.inc = @ + 1,
                          !.ids = Append(@, VOid(perl_mongo_make_oid(id_s)))]

\* Faulty variant of push_id: the caller's value is not reported.
push_id_dropped(b, v) == b

\* av_push(ids, *id)
push_id(b, v) == IF b.err # "" THEN b ELSE [b EXCEPT !.ids = Append(@, v)]

\* Faulty variant of check_circular_ref: nothing is ever found on the stack.
check_circular_ref_blind(ptr, stack) == FALSE

\* check_circular_ref: TRUE when ptr is on the stack (the function returns 0).
check_circular_ref(ptr, stack) == \E i \in 1..Len(stack) : stack[i] = ptr

\* Faulty variant of IndexOf: the key is never found.
IndexOf_absent(items, key) == 0

\* hv_exists(hv, "_id"): the index of the pair, 0 if there is none.
IndexOf(items, key) ==
  IF \E i \in 1..Len(items) : items[i][1] = key
  THEN CHOOSE i \in 1..Len(items) :
         items[i][1] = key /\ \A j \in 1..(i - 1) : items[j][1] # key
  ELSE 0

\* bytes_to_utf8: every byte above 127 becomes two.
RECURSIVE bytes_to_utf8(_)
bytes_to_utf8(str) ==
  IF str = <<>> THEN <<>>
  ELSE (IF str[1] >= 128 THEN <<192 + (str[1] \div 64), 128 + (str[1] % 64)>>
        ELSE <<str[1]>>) \o bytes_to_utf8(Tail(str))

\* SvPVutf8(sv, len): the bytes of a string that has the UTF-8 flag (n = 1)
\* as they are, not examined; the bytes of any other string upgraded.
SvPVutf8(sv) == IF sv.n = 1 THEN sv.s ELSE bytes_to_utf8(sv.s)

\* atoi on a string of decimal digits.
RECURSIVE atoi(_)
atoi(str) ==
  IF str = <<>> THEN 0
  ELSE 10 * atoi(SubSeq(str, 1, Len(str) - 1)) + (str[Len(str)] - 48)

\* while (temp > 0) { temp = temp / 10; length++; }: what the loop adds to
\* length.
RECURSIVE digits(_)
digits(temp) == IF temp > 0 THEN 1 + digits(temp \div 10) ELSE 0

\* for (j = 0; j < length; j++) offset *= 10: the factor.
RECURSIVE pow10(_)
pow10(length) == IF length = 0 THEN 1 ELSE 10 * pow10(length - 1)

\* The loop over the limbs of a Math::BigInt from limb i on; the value of
\* big after it.  length is not reset between limbs.  The offset computed
\* after the last limb is not used and not computed here.
RECURSIVE bigint_limbs(_, _, _, _, _)
bigint_limbs(av, i, big, offset, length) ==
  IF i > Len(av) THEN big
  ELSE LET val == av[i][2]
           length1 == length + (IF val.t = "IV" THEN digits(val.n)
                                ELSE Len(val.s))
           big1 == big + (IF val.t = "IV" THEN val.n ELSE atoi(val.s)) * offset
       IN IF i = Len(av) THEN big1
          ELSE bigint_limbs(av, i + 1, big1, offset * pow10(length1), length1)

\* The Math::BigInt branch of append_sv after the type and the key.
bigint_to_bson(b, sv) ==
  IF b.err # "" THEN b
  ELSE IF Len(sv.items) - 1 > 3 THEN croak(b, "BigInt is too large")
  ELSE IF \E i \in 1..Len(sv.items) : sv.items[i][2].t \notin {"IV", "PV"}
  THEN croak(b, "failed to fetch BigInt element")
  ELSE perl_mongo_serialize_long(b, bigint_limbs(sv.items, 1, 0, 1, 0) * sv.n)

RECURSIVE append_sv(_, _, _, _, _, _, _)
RECURSIVE hv_to_bson(_, _, _, _, _, _, _)
RECURSIVE hv_items(_, _, _, _, _, _, _, _)
RECURSIVE av_to_bson(_, _, _, _, _, _)
RECURSIVE av_items(_, _, _, _, _, _, _)
RECURSIVE ixhash_to_bson(_, _, _, _, _, _, _)
RECURSIVE ixhash_items(_, _, _, _, _, _, _)

\* The value and its depth budget d: a call that would nest deeper than the
\* budget stands for recursion without end.
\* append_sv(buf, key, sv, stack, is_insert)
append_sv(b, key, sv, stack, is_insert, hp, d) ==
  IF b.err # "" THEN b
  ELSE LET c == SvRV(hp, sv) IN
  IF sv.t = "undef"
  THEN perl_mongo_serialize_key(set_type(b, BSON_NULL), key, is_insert)
  ELSE IF sv.t = "MongoDB::OID"
  THEN perl_mongo_serialize_oid(
         perl_mongo_serialize_key(set_type(b, BSON_OID), key, is_insert), sv.s)
  ELSE IF sv.t = "Math::BigInt"
  THEN bigint_to_bson(
         perl_mongo_serialize_key(set_type(b, BSON_LONG), key, is_insert), sv)
  ELSE IF c.t = "Tie::IxHash"
  THEN ixhash_to_bson(
         perl_mongo_serialize_key(set_type(b, BSON_OBJECT), key, is_insert),
         c, FALSE, stack, is_insert, hp, d)
  ELSE IF sv.t = "boolean"
  THEN perl_mongo_serialize_byte(
         perl_mongo_serialize_key(set_type(b, BSON_BOOL), key, is_insert), sv.n)
  ELSE IF sv.t = "MongoDB::Code"
  THEN LET b1 == perl_mongo_serialize_key(set_type(b, BSON_CODE), key, is_insert)
           b2 == IF b1.err = "" /\ BUF_REMAINING(b1) <= INT_32
                 THEN perl_mongo_resize_buf(b1, INT_32) ELSE b1
           start == b2.used0 + Len(b2.bytes)
           b3 == perl_mongo_serialize_string(
                   perl_mongo_serialize_int(skip_size(b2), Len(sv.s) + 1), sv.s)
           scope == IF sv.n = 1 THEN VCont("HV", 0, sv.items) ELSE VNull
       IN code_size(hv_to_bson(b3, scope, FALSE, <<>>, is_insert, hp, d), b2,
                    start)
  ELSE IF sv.t = "MongoDB::BSON::Binary"
  THEN perl_mongo_serialize_bindata(
         perl_mongo_serialize_key(set_type(b, BSON_BINARY), key, is_insert),
         sv.n, sv.s)
  ELSE IF c.t = "HV"
  THEN hv_to_bson(
         perl_mongo_serialize_key(set_type(b, BSON_OBJECT), key, is_insert),
         c, FALSE, stack, is_insert, hp, d)
  ELSE IF c.t = "AV"
  THEN av_to_bson(
         perl_mongo_serialize_key(set_type(b, BSON_ARRAY), key, is_insert),
         c, stack, is_insert, hp, d)
  ELSE IF sv.t = "NV"
  THEN perl_mongo_serialize_double(
         perl_mongo_serialize_key(set_type(b, BSON_DOUBLE), key, is_insert), sv.n)
  ELSE IF sv.t = "IV"
  THEN IF b.int64
       THEN perl_mongo_serialize_long(
              perl_mongo_serialize_key(set_type(b, BSON_LONG), key, is_insert),
              sv.n)
       ELSE perl_mongo_serialize_int(
              perl_mongo_serialize_key(set_type(b, BSON_INT), key, is_insert),
              sv.n)
  ELSE IF sv.t = "PV"
  THEN IF strchr(sv.s, 0)
       THEN perl_mongo_serialize_bindata(
              perl_mongo_serialize_key(set_type(b, BSON_BINARY), key, is_insert),
              SUBTYPE_BINARY, sv.s)
       ELSE perl_mongo_serialize_string(
              perl_mongo_serialize_int(
                perl_mongo_serialize_key(set_type(b, BSON_STRING), key, is_insert),
                Len(SvPVutf8(sv)) + 1),
              SvPVutf8(sv))
  ELSE croak(b, "type unhandled")

\* containsNullChar(str, len): strlen(str) < len
containsNullChar(str) == Len(cstring(str, 1)) < Len(str)

\* The loop of hv_to_bson over the pairs from the i-th on.
hv_items(b, items, i, ids, stack, is_insert, hp, d) ==
  IF b.err # "" \/ i > Len(items) THEN b
  ELSE IF containsNullChar(items[i][1]) THEN croak(b, "key contains null char")
  ELSE IF ids /\ items[i][1] = K_id
  THEN hv_items(b, items, i + 1, ids, stack, is_insert, hp, d)
  ELSE hv_items(append_sv(b, items[i][1], items[i][2], stack, is_insert, hp, d),
                items, i + 1, ids, stack, is_insert, hp, d)

\* hv_to_bson(buf, sv, ids, stack, is_insert); ids: the ids array is not null.
hv_to_bson(b, sv, ids, stack, is_insert, hp, d) ==
  IF b.err # "" THEN b
  ELSE IF d = 0 THEN croak(b, "recursion without end")
  ELSE LET b1 == IF BUF_REMAINING(b) <= 5 THEN perl_mongo_resize_buf(b, 5) ELSE b
           start == b1.used0 + Len(b1.bytes)
           b2 == skip_size(b1)
       IN IF ~SvROK(hp, sv)
          THEN end_document(b2, b1, start)
          ELSE LET hv == SvRV(hp, sv) IN
               IF check_circular_ref(hv.n, stack) THEN croak(b2, "circular ref")
               ELSE LET st == Append(stack, hv.n)
                        at == IndexOf(hv.items, K_id)
                        b3 == IF ~ids THEN b2
                              ELSE IF at # 0
                              THEN push_id(append_sv(b2, K_id, hv.items[at][2],
                                                     st, is_insert, hp, d - 1),
                                           hv.items[at][2])
                              ELSE perl_mongo_prep(b2)
                    IN end_document(hv_items(b3, hv.items, 1, ids, st, is_insert,
                                             hp, d - 1),
                                    b1, start)

\* The loop of av_to_bson over the elements from the i-th on.
av_items(b, items, i, stack, is_insert, hp, d) ==
  IF b.err # "" \/ i > Len(items) THEN b
  ELSE av_items(append_sv(b, Decimal(i - 1), items[i][2], stack, is_insert,
                          hp, d),
                items, i + 1, stack, is_insert, hp, d)

\* av_to_bson(buf, av, stack, is_insert)
av_to_bson(b, av, stack, is_insert, hp, d) ==
  IF b.err # "" THEN b
  ELSE IF d = 0 THEN croak(b, "recursion without end")
  ELSE IF check_circular_ref(av.n, stack) THEN croak(b, "circular ref")
  ELSE LET st == Append(stack, av.n)
           b1 == IF BUF_REMAINING(b) <= 5 THEN perl_mongo_resize_buf(b, 5) ELSE b
           start == b1.used0 + Len(b1.bytes)
       IN end_document(av_items(skip_size(b1), av.items, 1, st, is_insert, hp,
                                d - 1),
                       b1, start)

\* The loop of ixhash_to_bson over the keys from the i-th on.
ixhash_items(b, items, i, stack, is_insert, hp, d) ==
  IF b.err # "" \/ i > Len(items) THEN b
  ELSE IF containsNullChar(items[i][1]) THEN croak(b, "key contains null char")
  ELSE ixhash_items(append_sv(b, items[i][1], items[i][2], stack, is_insert,
                              hp, d),
                    items, i + 1, stack, is_insert, hp, d)

\* ixhash_to_bson(buf, sv, ids, stack, is_insert)
ixhash_to_bson(b, ix, ids, stack, is_insert, hp, d) ==
  IF b.err # "" THEN b
  ELSE IF d = 0 THEN croak(b, "recursion without end")
  ELSE LET b1 == IF BUF_REMAINING(b) <= 5 THEN perl_mongo_resize_buf(b, 5) ELSE b
           start == b1.used0 + Len(b1.bytes)
           b2 == skip_size(b1)
       IN IF check_circular_ref(ix.n, stack) THEN croak(b2, "circular ref")
          ELSE LET st == Append(stack, ix.n)
                   at == IndexOf(ix.items, K_id)
                   b3 == IF ~ids THEN b2
                         ELSE IF at # 0
                         THEN push_id(append_sv(b2, K_id, ix.items[at][2], st,
                                                is_insert, hp, d - 1),
                                      ix.items[at][2])
                         ELSE perl_mongo_prep(b2)
               IN end_document(ixhash_items(b3, ix.items, 1, st, is_insert, hp,
                                            d - 1),
                               b1, start)

\* The key/value list of perl_mongo_sv_to_bson: the first element with key
\* "_id" at an even index, 0 if there is none.
RECURSIVE flat_id(_, _)
flat_id(items, i) ==
  IF i > Len(items) THEN 0
  ELSE IF items[i][2].t = "PV" /\ cstring(items[i][2].s, 1) = K_id THEN i
  ELSE flat_id(items, i + 2)

RECURSIVE flat_items(_, _, _, _, _, _)
\* The second loop of the key/value list: append_sv(buf, key, val, EMPTY_STACK).
flat_items(b, items, i, is_insert, hp, d) ==
  IF b.err # "" \/ i > Len(items) THEN b
  ELSE flat_items(append_sv(b, items[i][2].s, items[i + 1][2], <<>>, is_insert,
                            hp, d),
                  items, i + 2, is_insert, hp, d)

\* perl_mongo_sv_to_bson(buf, sv, ids); ids: the ids array is not null.
perl_mongo_sv_to_bson(b, sv, ids, hp, d) ==
  LET c == SvRV(hp, sv) IN
  IF ~SvROK(hp, sv) THEN croak(b, "not a reference")
  ELSE IF c.t = "HV" THEN hv_to_bson(b, sv, ids, <<>>, ids, hp, d)
  ELSE IF c.t = "Tie::IxHash" THEN ixhash_to_bson(b, c, ids, <<>>, ids, hp, d)
  ELSE IF Len(c.items) % 2 = 1
  THEN croak(b, "odd number of elements in structure")
  ELSE LET b1 == IF BUF_REMAINING(b) <= 5 THEN perl_mongo_resize_buf(b, 5) ELSE b
           start == b1.used0 + Len(b1.bytes)
           b2 == skip_size(b1)
           at == flat_id(c.items, 1)
           b3 == IF ~ids THEN b2
                 ELSE IF at # 0
                 THEN push_id(append_sv(b2, K_id, c.items[at + 1][2], <<>>, ids,
                                        hp, d - 1),
                              c.items[at + 1][2])
                 ELSE perl_mongo_prep(b2)
       IN end_document(flat_items(b3, c.items, 1, ids, hp, d - 1), b1, start)

---------------------------------------------------------------------------
(* BSON: the decoder *)

\* newSVpvn(buf->pos, len)
newSVpvn(bytes, p, len) == [i \in 1..len |-> bytes[p + i - 1]]

\* hv_store into a Perl hash: a key stored again replaces the value; the
\* iteration order of the hash is not the order of insertion (rev: one of
\* the orders it can be).
hash_order(items, rev) ==
  LET firsts == {i \in 1..Len(items) :
                   \A j \in 1..(i - 1) : items[j][1] # items[i][1]}
      lastOf(k) == CHOOSE i \in 1..Len(items) :
                   items[i][1] = k /\ \A j \in (i + 1)..Len(items) : items[j][1] # k
      nth(n) == CHOOSE i \in firsts : Cardinality({j \in firsts : j < i}) = n - 1
      kept == [n \in 1..Cardinality(firsts) |->
                 <<items[nth(n)][1], items[lastOf(items[nth(n)][1])][2]>>]
  IN IF rev THEN [n \in 1..Len(kept) |-> kept[Len(kept) + 1 - n]] ELSE kept

RECURSIVE elem_to_sv(_, _, _, _)
RECURSIVE bson_loop(_, _, _, _, _)
RECURSIVE bson_to_sv(_, _, _)

\* The decoding functions return the value v, the position p after it, docs,
\* the <<start, end>> positions of every document read on the way (end: the
\* position after its terminating NUL) and err, the croak that ended the
\* call.  df: use_boolean, use_binary and utf8_flag_on as the interpreter has
\* them, the build (int64), the hash order (rev), inflate_dbrefs.
DefaultFlags ==
  [use_boolean |-> FALSE, use_binary |-> FALSE, rev |-> FALSE,
   int64 |-> FALSE, inflate_dbrefs |-> 0, utf8_flag_on |-> TRUE]

\* What a decoding function returns without a croak.
Decoded(v, p, docs) == [v |-> v, p |-> p, docs |-> docs, err |-> ""]

\* newSVpvn and, unless utf8_flag_on is 0, SvUTF8_on: n is the UTF-8 flag.
\* The bytes are not examined.
utf8_string(str, df) == V("PV", IF df.utf8_flag_on THEN 1 ELSE 0, str, <<>>)

\* The keys of a database reference.
K_ref == <<36, 114, 101, 102>>
K_refid == <<36, 105, 100>>
K_db == <<36, 100, 98>>

\* The test of bson_to_sv after its loop: three fields were read and they
\* were named $ref, $id and $db in this order, and inflation is asked for.
is_dbref(items, df) ==
  /\ Len(items) = 3
  /\ items[1][1] = K_ref /\ items[2][1] = K_refid /\ items[3][1] = K_db
  /\ df.inflate_dbrefs = 1

\* A decoder that takes the pattern for the whole regular expression.
regex_end_pattern_only(bytes, p) == p + Len(cstring(bytes, p)) + 1

\* The position after a regular expression at p: the pattern up to its NUL,
\* then the flags byte by byte up to theirs.
regex_end(bytes, p) ==
  LET after == p + Len(cstring(bytes, p)) + 1
  IN after + Len(cstring(bytes, after)) + 1

\* A byte read as a char, in a build where char is signed.
char(byte) == IF byte >= 128 THEN byte - 256 ELSE byte

\* The while loop of bson_to_sv and bson_to_av, from position p on.
bson_loop(bytes, p, df, items, docs) ==
  IF bytes[p] = 0
  THEN [items |-> items, p |-> p + 1, docs |-> docs, err |-> ""]
  ELSE LET name == cstring(bytes, p + 1)
           e == elem_to_sv(char(bytes[p]), bytes, p + 1 + Len(name) + 1, df)
       IN IF e.err # ""
          THEN [items |-> items, p |-> e.p, docs |-> docs \cup e.docs,
                err |-> e.err]
          ELSE bson_loop(bytes, e.p, df, Append(items, <<name, e.v>>),
                         docs \cup e.docs)

\* bson_to_sv: a document to a hash, or to a MongoDB::DBRef.  A fresh hash
\* has an address of its own.
bson_to_sv(bytes, pos, df) ==
  LET r == bson_loop(bytes, pos + INT_32, df, <<>>, {})
  IN [v |-> IF r.err = "" /\ is_dbref(r.items, df)
            THEN V("MongoDB::DBRef", 0, <<>>, r.items)
            ELSE VCont("HV", 100 + pos, hash_order(r.items, df.rev)),
      p |-> r.p, docs |-> r.docs \cup {<<pos, r.p>>}, err |-> r.err]

\* bson_to_av: a document to an array; the field names are dropped.
bson_to_av(bytes, pos, df) ==
  LET r == bson_loop(bytes, pos + INT_32, df, <<>>, {})
  IN [v |-> VCont("AV", 100 + pos, r.items),
      p |-> r.p, docs |-> r.docs \cup {<<pos, r.p>>}, err |-> r.err]

\* elem_to_sv(type, buf, ...) with buf->pos = p.  A date is decoded as with
\* dt_type NULL (the raw epoch); a double is 0.0 or 1.0.
elem_to_sv(type, bytes, p, df) ==
  IF type = BSON_OID
  THEN Decoded(VOid(perl_mongo_make_oid(newSVpvn(bytes, p, OID_SIZE))),
               p + OID_SIZE, {})
  ELSE IF type = BSON_DOUBLE
  THEN Decoded(VDouble(IF newSVpvn(bytes, p, DOUBLE_64)
                            = <<0, 0, 0, 0, 0, 0, 240, 63>> THEN 1 ELSE 0),
               p + DOUBLE_64, {})
  ELSE IF type \in {BSON_SYMBOL, BSON_STRING}
  THEN LET len == RdLE32(bytes, p)
       IN Decoded(utf8_string(newSVpvn(bytes, p + INT_32, len - 1), df),
                  p + INT_32 + len, {})
  ELSE IF type = BSON_OBJECT THEN bson_to_sv(bytes, p, df)
  ELSE IF type = BSON_ARRAY THEN bson_to_av(bytes, p, df)
  ELSE IF type = BSON_BINARY
  THEN LET len0 == RdLE32(bytes, p)
           subtype == bytes[p + INT_32]
           p1 == p + INT_32 + 1
           old == subtype = SUBTYPE_BINARY_DEPRECATED
                  /\ RdLE32(bytes, p1) = len0 - 4
           len == IF old THEN len0 - 4 ELSE len0
           p2 == IF old THEN p1 + INT_32 ELSE p1
       IN Decoded(IF df.use_binary THEN VBin(subtype, newSVpvn(bytes, p2, len))
                  ELSE VStr(newSVpvn(bytes, p2, len)),
                  p2 + len, {})
  ELSE IF type = BSON_BOOL
  THEN Decoded(IF df.use_boolean THEN VBool(IF bytes[p] # 0 THEN 1 ELSE 0)
               ELSE VInt(bytes[p]),
               p + 1, {})
  ELSE IF type \in {BSON_UNDEF, BSON_NULL} THEN Decoded(VNull, p, {})
  ELSE IF type = BSON_INT
  THEN Decoded(VInt(RdLE32(bytes, p)), p + INT_32, {})
  ELSE IF type = BSON_LONG
  THEN Decoded(IF df.int64 THEN VInt(RdLE64(bytes, p))
               ELSE VDouble(RdLE64(bytes, p)),
               p + INT_64, {})
  ELSE IF type = BSON_DATE
  THEN Decoded(VInt(RdLE64(bytes, p) \div 1000), p + INT_64, {})
  ELSE IF type = BSON_REGEX
  THEN Decoded(V("Regexp", 0, cstring(bytes, p), <<>>), regex_end(bytes, p), {})
  ELSE IF type = BSON_CODE
  THEN LET code_len == RdLE32(bytes, p + INT_32)
           code == newSVpvn(bytes, p + INT_32 + INT_32, code_len - 1)
           scope == bson_to_sv(bytes, p + INT_32 + INT_32 + code_len, df)
       IN [v |-> VCode(code, 1, scope.v.items), p |-> scope.p,
           docs |-> scope.docs, err |-> scope.err]
  ELSE IF type = BSON_CODE__D
  THEN LET code_len == RdLE32(bytes, p)
       IN Decoded(VCode(newSVpvn(bytes, p + INT_32, code_len - 1), 0, <<>>),
                  p + INT_32 + code_len, {})
  ELSE IF type = BSON_TIMESTAMP
  THEN Decoded(V("MongoDB::Timestamp", RdLE32(bytes, p + INT_32),
                 <<RdLE32(bytes, p)>>, <<>>),
               p + INT_32 + INT_32, {})
  ELSE IF type = BSON_MINKEY
  THEN Decoded(V("MongoDB::MinKey", 0, <<>>, <<>>), p, {})
  ELSE IF type = BSON_MAXKEY
  THEN Decoded(V("MongoDB::MaxKey", 0, <<>>, <<>>), p, {})
  ELSE [v |-> VNull, p |-> p, docs |-> {}, err |-> "type not supported"]

\* perl_mongo_bson_to_sv
perl_mongo_bson_to_sv(bytes, df) == bson_to_sv(bytes, 1, df)

---------------------------------------------------------------------------
(* BSON: the documents encoded and the calls *)

TopKeys == {K_id, K_a, K_dot, K_empty}
PairKeys == {K_id, K_a, K_dot}

\* "x", "x\0y", code "x" with scope {a => 1}, with scope {"a.b" => undef} and
\* without a scope, an id the caller made.
Scalars ==
  {VInt(1), VNull, VStr(<<120>>), VStr(<<120, 0, 121>>), VBool(1),
   VBin(SUBTYPE_BINARY_DEPRECATED, <<1>>),
   VCode(<<120>>, 1, <<<<K_a, VInt(1)>>>>),
   VCode(<<120>>, 1, <<<<K_dot, VNull>>>>),
   VCode(<<120>>, 0, <<>>),
   VOid(perl_mongo_make_oid(make_id_bytes(7)))}

FirstValues == Scalars \cup {VRef(1), VRef(2)}

\* The key/value pairs of a top-level document.
TopPairs ==
  {<<>>}
  \cup {<<<<k, v>>>> : k \in TopKeys, v \in FirstValues}
  \cup {<<<<kv[1], v>>, <<kv[2], VInt(2)>>>> :
          kv \in {x \in PairKeys \X PairKeys : x[1] # x[2]}, v \in FirstValues}
  \cup {<<<<kv[1], VInt(1)>>, <<kv[2], VRef(2)>>>> :
          kv \in {x \in PairKeys \X PairKeys : x[1] # x[2]}}

\* An array holding the pairs as a flat key/value list.
Flat(pairs) ==
  [i \in 1..(2 * Len(pairs)) |->
     <<Decimal(i - 1),
       IF i % 2 = 1 THEN VStr(pairs[(i + 1) \div 2][1])
       ELSE pairs[i \div 2][2]>>]

\* Math::BigInt values: limbs with all their digits, with fewer, zero, as
\* strings; more limbs than four; a limb that is neither integer nor string.
BigInts ==
  {VBig(1, <<VInt(12), VInt(34)>>),
   VBig(-1, <<VInt(12), VInt(34)>>),
   VBig(1, <<VInt(5), VInt(7)>>),
   VBig(-1, <<VInt(0), VInt(1)>>),
   VBig(1, <<VInt(12), VInt(34), VInt(56)>>),
   VBig(1, <<VInt(0), VInt(0), VInt(0), VInt(1)>>),
   VBig(1, <<VStr(<<48, 53>>), VInt(7)>>),
   VBig(1, <<VInt(0), VInt(0), VInt(0), VInt(0), VInt(1)>>),
   VBig(1, <<VNull>>)}

\* Strings with a byte above 127: a byte string (the Latin-1 e acute), a
\* string with the UTF-8 flag that holds well-formed UTF-8 (the same letter)
\* and one that holds a lone continuation byte.
Strings8 ==
  {VStr(<<233>>), V("PV", 1, <<195, 169>>, <<>>), V("PV", 1, <<128>>, <<>>)}

\* Documents with one field for the cases of single values and keys: a key
\* with an embedded NUL; a code value whose scope holds the document itself;
\* a Math::BigInt; a string with a byte above 127.
ExtraPairs ==
  {<<<<K_nul, VInt(1)>>>>,
   <<<<K_a, VCode(<<120>>, 1, <<<<K_a, VRef(1)>>>>)>>>>}
  \cup {<<<<K_a, v>>>> : v \in BigInts \cup Strings8}

ExtraTops ==
  {VCont(t, 1, p) : t \in {"HV", "Tie::IxHash"}, p \in ExtraPairs}
  \cup {VCont("AV", 1, Flat(p)) : p \in ExtraPairs}

Tops ==
  {VCont(t, 1, p) : t \in {"HV", "Tie::IxHash"}, p \in TopPairs}
  \cup {VCont("AV", 1, Flat(p)) : p \in TopPairs}
  \cup {VCont("AV", 1, <<<<Decimal(0), VStr(K_a)>>>>)}
  \cup ExtraTops

Seconds ==
  {VCont(t, 2, <<<<K_a, v>>>>) :
     t \in ContainerTypes, v \in {VInt(1), VRef(1), VRef(2), VRef(3)}}
  \cup {VCont(t, 2, <<<<k, VInt(1)>>>>) :
          t \in {"HV", "Tie::IxHash"}, k \in {K_dot, K_empty, K_nul}}

Thirds ==
  {VCont(t, 3, <<<<K_a, v>>>>) :
     t \in ContainerTypes, v \in {VNull, VRef(1), VRef(3)}}
  \cup {VCont("HV", 3, <<<<K_dot, VNull>>>>)}

Refers(c, n) == \E i \in 1..Len(c.items) : c.items[i][2] = VRef(n)

\* The heaps: the document at address 1 and the containers it reaches.
HeapsOf(top) ==
  IF Refers(top, 2)
  THEN UNION {IF Refers(c2, 3) THEN {<<top, c2, c3>> : c3 \in Thirds}
              ELSE {<<top, c2, VCont("HV", 3, <<>>)>>} : c2 \in Seconds}
  ELSE {<<top, VCont("HV", 2, <<>>), VCont("HV", 3, <<>>)>>}

Heaps == UNION {HeapsOf(top) : top \in Tops}

\* The buffer and the build of a call: an empty buffer; a buffer nearly
\* full that moves when it grows; a large buffer nearly full on a build with
\* 64-bit integers.
Configs ==
  {[total |-> INITIAL_BUF_SIZE, used0 |-> 0, moves |-> FALSE, int64 |-> FALSE],
   [total |-> INITIAL_BUF_SIZE, used0 |-> INITIAL_BUF_SIZE - Slack,
    moves |-> TRUE, int64 |-> FALSE],
   [total |-> GROW_SLOWLY, used0 |-> GROW_SLOWLY - Slack, moves |-> FALSE,
    int64 |-> TRUE]}

NoEnc == [done |-> FALSE, b |-> NewBuf(0, 0, 0, FALSE, 0, FALSE)]
NoDec == [done |-> FALSE, v |-> VNull, err |-> ""]

\* What the caller of perl_mongo_bson_to_sv has after the call returned r.
decoded_call(r) == [done |-> TRUE, v |-> r.v, err |-> r.err]

\* The caller's buffer before the document is written.
CallBuf == NewBuf(INITIAL_BUF_SIZE, bcfg.total, bcfg.used0, bcfg.moves,
                  perl_mongo_inc, bcfg.int64)

BsonFrame ==
  UNCHANGED <<link, sayVars, hearVars, lifeVars, ithreads, inc_mutex, idpc,
              idinc, made, heap, bcfg, rbuf>>

\* perl_mongo_sv_to_bson(buf, sv, ids) on the document at address 1.
Encode ==
  /\ ~enc.done
  /\ enc' = [done |-> TRUE,
             b |-> perl_mongo_sv_to_bson(CallBuf, VRef(1), bcfg.ids, heap, MaxDepth)]
  /\ perl_mongo_inc' = enc'.b.inc
  /\ UNCHANGED <<dec, reenc>>
  /\ BsonFrame

\* perl_mongo_bson_to_sv on the bytes of an encoded document.
Decode ==
  /\ enc.done /\ enc.b.err = "" /\ ~enc.b.wild
  /\ ~dec.done
  /\ \E use_boolean \in BOOLEAN, use_binary \in BOOLEAN, rev \in BOOLEAN :
       dec' = decoded_call(
                perl_mongo_bson_to_sv(
                  enc.b.bytes,
                  [DefaultFlags EXCEPT !.use_boolean = use_boolean,
                                       !.use_binary = use_binary,
                                       !.rev = rev,
                                       !.int64 = bcfg.int64]))
  /\ UNCHANGED <<enc, reenc, perl_mongo_inc>>
  /\ BsonFrame

\* perl_mongo_sv_to_bson(buf, sv, NULL) on a decoded document, into a fresh
\* buffer.
Reencode ==
  /\ dec.done /\ ~reenc.done
  /\ reenc' = [done |-> TRUE,
               b |-> perl_mongo_sv_to_bson(
                       NewBuf(INITIAL_BUF_SIZE, INITIAL_BUF_SIZE, 0, FALSE,
                              perl_mongo_inc, bcfg.int64),
                       dec.v, FALSE, heap, MaxDepth)]
  /\ UNCHANGED <<enc, dec, perl_mongo_inc>>
  /\ BsonFrame

---------------------------------------------------------------------------
(* BSON: the buffers decoded *)

\* One element and one document of the wire format.
El(type, key, payload) == <<type>> \o key \o <<0>> \o payload
Doc(elems) == LE32(INT_32 + Len(elems) + 1) \o elems \o <<0>>

K_b == <<98>>
StrX == LE32(2) \o <<120, 0>>

\* { a => 1 }, { '$ref' => "x", '$id' => 1 } and the like.
DocInt == Doc(El(BSON_INT, K_a, LE32(1)))
DocRef2 == Doc(El(BSON_STRING, K_ref, StrX) \o El(BSON_INT, K_refid, LE32(1)))
DocRef3 ==
  Doc(El(BSON_STRING, K_ref, StrX) \o El(BSON_INT, K_refid, LE32(1))
      \o El(BSON_STRING, K_db, StrX))
DocRef4 ==
  Doc(El(BSON_STRING, K_ref, StrX) \o El(BSON_INT, K_refid, LE32(1))
      \o El(BSON_STRING, K_db, StrX) \o El(BSON_INT, K_a, LE32(1)))
DocRefSwapped ==
  Doc(El(BSON_INT, K_refid, LE32(1)) \o El(BSON_STRING, K_ref, StrX)
      \o El(BSON_STRING, K_db, StrX))
DocString == Doc(El(BSON_STRING, K_a, LE32(3) \o <<120, 121, 0>>))

\* Well-formed documents, one for each element type the decoder knows:
\* the binary subtype 2 with and without the repeated length, code with a
\* scope, a regular expression with a flag, nested documents and arrays,
\* database references whole and nested.
WellFormed ==
  {Doc(<<>>), DocInt, DocString, DocRef2, DocRef3, DocRef4, DocRefSwapped,
   Doc(El(BSON_DOUBLE, K_a, <<0, 0, 0, 0, 0, 0, 240, 63>>)),
   Doc(El(BSON_SYMBOL, K_a, StrX)),
   Doc(El(BSON_OBJECT, K_a, DocInt) \o El(BSON_INT, K_b, LE32(2))),
   Doc(El(BSON_OBJECT, K_a, DocRef3)),
   Doc(El(BSON_ARRAY, K_a, Doc(El(BSON_INT, <<48>>, LE32(1))
                               \o El(BSON_OBJECT, <<49>>, DocRef2)))),
   Doc(El(BSON_BINARY, K_a, LE32(1) \o <<SUBTYPE_BINARY, 7>>)),
   Doc(El(BSON_BINARY, K_a,
          LE32(5) \o <<SUBTYPE_BINARY_DEPRECATED>> \o LE32(1) \o <<7>>)),
   Doc(El(BSON_BINARY, K_a,
          LE32(4) \o <<SUBTYPE_BINARY_DEPRECATED>> \o LE32(9))),
   Doc(El(BSON_UNDEF, K_a, <<>>) \o El(BSON_NULL, K_b, <<>>)),
   Doc(El(BSON_OID, K_id, <<1, 2, 3, 4, 5, 6, 7, 8, 9, 10, 11, 12>>)),
   Doc(El(BSON_BOOL, K_a, <<1>>)),
   Doc(El(BSON_DATE, K_a, LE64(2000))),
   Doc(El(BSON_REGEX, K_a, <<120, 0, 105, 0>>) \o El(BSON_INT, K_b, LE32(2))),
   Doc(El(BSON_CODE__D, K_a, StrX)),
   Doc(El(BSON_CODE, K_a, LE32(INT_32 + 6 + Len(DocInt)) \o StrX \o DocInt)
       \o El(BSON_INT, K_b, LE32(2))),
   Doc(El(BSON_TIMESTAMP, K_a, LE32(3) \o LE32(4))),
   Doc(El(BSON_LONG, K_a, LE64(5))),
   Doc(El(255, K_a, <<>>) \o El(BSON_MAXKEY, K_b, <<>>))}

\* Documents with an element of a type the decoder does not know.
Unsupported == {Doc(El(BSON_DBREF, K_a, StrX \o <<1, 2, 3, 4, 5, 6, 7, 8, 9, 10, 11, 12>>))}

RECURSIVE Concat(_)
Concat(docs) == IF docs = <<>> THEN <<>> ELSE Head(docs) \o Concat(Tail(docs))

\* The number of documents in the longest buffer.
MaxDocs == 3

\* The documents of a buffer: any one document, any two, or MaxDocs of one
\* kind.
DocLists ==
  {<<d>> : d \in WellFormed \cup Unsupported}
  \cup {<<d, e>> : d \in WellFormed, e \in WellFormed}
  \cup {[i \in 1..MaxDocs |-> d] : d \in {DocInt, DocRef3}}

\* Buffers that end before their document does: without the terminating
\* NUL, in the middle of a string, of an int, of a binary and of the length.
Cuts ==
  {<<DocInt, 1>>, <<DocInt, 3>>, <<DocString, 1>>, <<DocString, 3>>,
   <<DocInt, Len(DocInt) - 2>>, <<DocRef3, 1>>,
   <<Doc(El(BSON_BINARY, K_a, LE32(2) \o <<SUBTYPE_BINARY, 7, 8>>)), 2>>}

\* What the memory behind the buffer can hold: nothing but NULs, or what
\* looks like one more element.
Behind ==
  {[i \in 1..16 |-> 0],
   El(BSON_INT, K_b, LE32(1)) \o [i \in 1..9 |-> 0]}

\* A buffer before the first call: docs, the documents sent; buf, the bytes
\* received, from buf->start to buf->end; behind, the memory after buf->end;
\* pos, buf->pos as an index of buf (end is Len(buf) + 1); vals, the values
\* the calls returned; err, the croak of the last call.
NewRead(docs, buf, behind, inflate_dbrefs) ==
  [docs |-> docs, buf |-> buf, behind |-> behind, pos |-> 1, vals |-> <<>>,
   err |-> "", inflate_dbrefs |-> inflate_dbrefs]

NoRead == NewRead(<<>>, <<>>, <<>>, 0)

Received ==
  {NewRead(docs, Concat(docs), [i \in 1..16 |-> 0], f) :
     docs \in DocLists, f \in {0, 1}}
  \cup {NewRead(<<c[1]>>, SubSeq(c[1], 1, Len(c[1]) - c[2]), m, 0) :
          c \in Cuts, m \in Behind}

\* The buffer after a call that returned r.
after_call(rb, r) ==
  [rb EXCEPT !.pos = r.p, !.vals = Append(@, r.v), !.err = r.err]

\* perl_mongo_bson_to_sv(buf, NULL, inflate_dbrefs, client) while the buffer
\* has bytes left.
DecodeCall ==
  /\ rbuf.err = "" /\ rbuf.pos < Len(rbuf.buf) + 1
  /\ rbuf' = after_call(rbuf,
                        bson_to_sv(rbuf.buf \o rbuf.behind, rbuf.pos,
                                   [DefaultFlags EXCEPT
                                      !.inflate_dbrefs = rbuf.inflate_dbrefs]))
  /\ UNCHANGED <<link, sayVars, hearVars, lifeVars, idVars, heap, bcfg, enc,
                 dec, reenc>>

---------------------------------------------------------------------------
(* Properties of the sender, checked under Spec *)

SendsIn(t) == Cardinality({i \in DOMAIN t : t[i] = "send"})
ConnectsIn(t) == Cardinality({i \in DOMAIN t : t[i] = "connect"})

C2_RetryInSameCall ==
  (last.msg # 0 /\ last.ret = -1 /\ SendsIn(last.trace) >= 1
     /\ link.auto_reconnect = 1)
    => (SendsIn(last.trace) = 2 /\ ConnectsIn(last.trace) >= 1)

\* C2 amended: a call whose write fails marks the link Disconnected and
\* returns -1 at once; no call makes a connect() after its write or hands the
\* buffer to the sender twice.  The only reconnect is the one made before the
\* write, when the link was disconnected on entry.
C2_NoRetryInSameCall ==
  last.msg # 0 =>
    /\ last.trace \in {<<>>, <<"connect">>, <<"send">>, <<"connect", "send">>}
    /\ (ConnectsIn(last.trace) = 1 => last.pre = 0)
    /\ (SendsIn(last.trace) = 1 /\ last.written = 0)
          => (last.ret = -1 /\ last.post = 0)

\* C2 witness: a write failed on an auto_reconnect link and the call returned
\* -1 after that single sender call.
C2_Witness ==
  /\ last.msg # 0
  /\ link.auto_reconnect = 1
  /\ link.copy = 0
  /\ last.trace = <<"send">>
  /\ last.ret = -1
  /\ last.post = 0

\* C7 as stated: every call either wrote the whole message or returned -1 with
\* the link Disconnected (a call the connect method died in returned nothing
\* and wrote nothing).
C7_NoPartialMessage ==
  last.msg # 0 =>
    \/ last.written = last.len
    \/ (last.ret = -1 /\ last.post = 0 /\ last.written = 0)
    \/ (last.ret = -2 /\ last.written = 0)

---------------------------------------------------------------------------
(* Properties of the reply reader, checked under SpecHear *)

HeaderCroaks == {"invalid response header", "invalid header received"}

\* The failures of mongo_link_hear that a desynchronised or broken reply
\* stream causes.
DesyncCroaks ==
  HeaderCroaks \cup {"missed the response we wanted",
                     "couldn't get header response to throw out",
                     "couldn't get response to throw out",
                     "strerror",
                     "error getting database response"}

\* C3 as stated: when the header after a thrown-out reply is about to be read,
\* exactly the declared remaining length of that reply (its length minus the
\* 16 header bytes) has been consumed since its header.
C3_DrainsDeclaredLength ==
  (pc = "gh_length" /\ loc.phase = "loop")
    => rd = hist.hdrEnd + (cursor.length - MSG_HEADER_SIZE)

\* C4 as stated: a reply whose response_to is smaller than the request id
\* makes mongo_link_hear fail with "missed the response we wanted", and is
\* never thrown out and skipped.
C4_SmallerIdFails ==
  [][(pc = "loop_test" /\ cursor.response_to < reqId)
       => (pc' = "idle" /\ hist'.ret = "missed the response we wanted")]_vars

\* C4 amended: mongo_link_hear fails with "missed the response we wanted" when
\* it sees a reply whose response_to is larger than the request id, and reads
\* nothing more of it; a reply whose response_to is smaller is thrown out and
\* skipped; an equal one is the reply waited for.
C4_LargerIdFails ==
  [][pc = "loop_test" =>
       /\ cursor.response_to > reqId
            => (pc' = "idle" /\ hist'.ret = "missed the response we wanted"
                /\ rd' = rd)
       /\ cursor.response_to < reqId
            => (pc' = "drain_sub" /\ loc'.len = cursor.length - REPLY_HEADER_SIZE)
       /\ cursor.response_to = reqId => pc' = "sub_flag"]_vars

\* C4 witness: the call has failed on a reply to a later request.
C4_Witness ==
  /\ pc = "idle"
  /\ hist.ret = "missed the response we wanted"
  /\ cursor.response_to > reqId
  /\ rd = hist.hdrEnd

\* C5 as stated: when mongo_link_hear fails on a protocol desync, the link is
\* Disconnected when the error reaches the caller.
C5_DesyncLeavesDisconnected ==
  (pc = "idle" /\ hist.ret \in DesyncCroaks) => Disconnected(link)

\* C6 as stated: a successful mongo_link_hear has read the whole declared body
\* of the reply into the cursor's buffer.
C6_WholeBodyOrFailure ==
  (pc = "idle" /\ hist.ret = "ok") => cursor.buf.fill = cursor.length

\* C8: a header whose length field, read in full, is below the 16-byte minimum
\* or above MAX_RESPONSE_LEN ends the call in get_header: the link is
\* Disconnected, no further header field is read, and the cursor's buffer is
\* not touched.
C8_HeaderBounds ==
  [][(/\ pc = "gh_length"
      /\ rd' = rd + INT_32
      /\ (cursor'.length < MSG_HEADER_SIZE \/ cursor'.length > MAX_RESPONSE_LEN))
     => (/\ pc' = "idle"
         /\ hist'.ret \in HeaderCroaks
         /\ Disconnected(link')
         /\ cursor'.buf = cursor.buf
         /\ cursor'.buf = hist.buf0)]_vars

\* C8 witness: the call has failed on a header of length MAX_RESPONSE_LEN + 1
\* after reading those four bytes only.
C8_Witness ==
  /\ pc = "idle"
  /\ hist.ret \in HeaderCroaks
  /\ cursor.length = MAX_RESPONSE_LEN + 1
  /\ Disconnected(link)
  /\ rd \in { Base(stream, i) + INT_32 : i \in 1..Len(stream) }

\* C9: a call that ends with "cursor not found" leaves the count at zero and
\* the buffer as it was when the call began; a call that goes on to read the
\* body has seen a flag whose bit 0 is clear.
C9_CursorNotFound ==
  /\ (pc = "idle" /\ hist.ret = "cursor not found")
       => (/\ cursor.flag % 2 = 1
           /\ cursor.num = 0
           /\ cursor.buf = hist.buf0
           /\ hist.val = 0)
  /\ (pc = "read_body"
        \/ (pc = "idle" /\ hist.ret \in {"ok", "error getting database response"}))
       => cursor.flag % 2 = 0

\* C9 witness: a cursor that held documents in a buffer got "cursor not found".
C9_Witness ==
  /\ pc = "idle"
  /\ hist.ret = "cursor not found"
  /\ hist.num0 > 0
  /\ hist.buf0.start = 1
  /\ \E i \in 1..Len(stream) : stream[i].flag = 1 /\ rd = Base(stream, i) + REPLY_HEADER_SIZE

\* C10 as stated: a successful call adds number_returned to the count and
\* returns number_returned.
C10_ReturnsNumberReturned ==
  (pc = "idle" /\ hist.ret = "ok")
    => (cursor.num = hist.num0 + hist.nret /\ hist.val = hist.nret)

\* C10 amended: a successful call adds to the count the num_returned it read
\* from the reply's sub-header (the reply's number_returned when that field
\* was read in full at its place) and returns 1 if that number is positive
\* and 0 otherwise; the count is the sum of the numbers added since the last
\* reset.
C10_CountAndFlag ==
  /\ cursor.num = hist.acc
  /\ (pc = "idle" /\ hist.ret = "ok")
       => (/\ cursor.num = hist.num0 + hist.nret
           /\ hist.val = (IF hist.nret > 0 THEN 1 ELSE 0)
           /\ (hist.trueNum # -1 => hist.nret = hist.trueNum))

\* C10 witness: a second batch of more than one document has been accepted.
C10_Witness ==
  /\ pc = "idle"
  /\ hist.ret = "ok"
  /\ hist.trueNum >= 2
  /\ hist.num0 > 0
  /\ hist.val = 1

---------------------------------------------------------------------------
(* Properties of connecting and disconnecting, checked under SpecLink *)

\* C11: set_disconnected on a link that is already disconnected changes no
\* state, closes no descriptor and calls no method, so after the first call
\* of a row every further call leaves the link and the open descriptors as
\* they were, also when the first call cleared a copy link's master.
C11_DisconnectIdempotent ==
  /\ set_disconnected(set_disconnected(link)) = set_disconnected(link)
  /\ (disc.run >= 1 /\ Disconnected(disc.pre))
       => (/\ link = disc.pre
           /\ fds = disc.fds0
           /\ disc.closed = {}
           /\ disc.callbacks = 0)
  /\ disc.run >= 1 => Disconnected(link)
  /\ disc.run >= 2
       => (Disconnected(disc.pre) /\ link = set_disconnected(disc.first))

\* C11 witness: a connected copy link was disconnected, which cleared its
\* master, and set_disconnected was called on it again.
C11_Witness ==
  /\ disc.run >= 2
  /\ disc.first.copy = 1
  /\ disc.first.master = 1
  /\ disc.first.connected = 1
  /\ link.master = 0
  /\ disc.pre.master = 0

\* C12 as stated: non_ssl_connect returns 0 with connected set and the new
\* socket stored only when the connection is established; a timeout returns
\* 0, a network failure a positive errno, a resolution failure a negative
\* h_errno; every failure path closes the socket it opened and leaves
\* connected and socket as they were; so 0 with connected set means the call
\* connected.
C12_ConnectResult ==
  conn.path # "none" =>
    /\ conn.path \in Established
         => (conn.ret = 0 /\ link.connected = 1 /\ link.socket = conn.sock
             /\ conn.closed = {})
    /\ conn.path = "timeout" => conn.ret = 0
    /\ conn.path \in {"nosock", "refused", "selecterr", "peerfail"}
         => conn.ret > 0
    /\ conn.path = "noresolve" => conn.ret < 0
    /\ conn.path \notin Established
         => (/\ link.connected = conn.pre.connected
             /\ link.socket = conn.pre.socket
             /\ (conn.sock # -1 => conn.closed = {conn.sock})
             /\ conn.sock \notin fds)
    /\ (conn.ret = 0 /\ link.connected = 1) => conn.path \in Established

---------------------------------------------------------------------------
(* Properties of perl_mongo_make_id, checked under SpecId *)

\* C13: at most one caller is between taking and releasing the lock, so the
\* read and the increment of the counter are not interleaved with another
\* caller's; the counter values handed out are pairwise distinct, and so are
\* the counter bytes of the ids generated.
C13_CounterAtomic ==
  /\ Cardinality({t \in Threads : idpc[t] \in {"read", "write", "unlock"}}) <= 1
  /\ \A t \in Threads :
       (ithreads /\ idpc[t] \in {"read", "write", "unlock"}) => inc_mutex = t
  /\ \A i, j \in 1..Len(made) : i # j => made[i][2] # made[j][2]
  /\ \A t, u \in Threads :
       (t # u /\ idpc[t] \in {"write", "unlock", "fill"}
              /\ idpc[u] \in {"write", "unlock", "fill"})
         => idinc[t] # idinc[u]
  /\ perl_mongo_inc
       = Len(made) + Cardinality({t \in Threads : idpc[t] \in {"unlock", "fill"}})

\* C13 witness: MaxIds ids were generated by more than one thread, whose calls
\* overlapped.
C13_Witness ==
  /\ Len(made) = MaxIds
  /\ Cardinality({made[i][1] : i \in 1..Len(made)}) >= 2
  /\ \E i \in 1..(Len(made) - 1) : made[i][2][3] > made[i + 1][2][3]

---------------------------------------------------------------------------
(* Properties of the BSON encoder and decoder, checked under SpecBson *)

\* The documents in a successfully encoded byte string: <<start, end>> of the
\* top-level document and of every document nested in it, found as the
\* decoder walks the bytes.
DocsOf(bytes) ==
  perl_mongo_bson_to_sv(bytes, DefaultFlags).docs

Encoded == enc.done /\ enc.b.err = ""

\* C14: every document the encoder emits (top-level, nested hash, array,
\* Tie::IxHash, code scope) starts with four little-endian bytes that hold
\* the number of bytes from the first of them through the document's
\* trailing NUL, also when the buffer was reallocated while the document
\* was written; no size is written anywhere else.
C14_LengthPrefix ==
  Encoded =>
    /\ ~enc.b.wild
    /\ <<1, Len(enc.b.bytes) + 1>> \in DocsOf(enc.b.bytes)
    /\ \A d \in DocsOf(enc.b.bytes) :
         /\ newSVpvn(enc.b.bytes, d[1], INT_32) = LE32(d[2] - d[1])
         /\ enc.b.bytes[d[2] - 1] = 0

\* C14 witness: a document with two levels of nesting was encoded into a
\* buffer that was reallocated, and moved, on the way.
C14_Witness ==
  /\ Encoded
  /\ enc.b.resizes >= 1
  /\ enc.b.base # INITIAL_BUF_SIZE
  /\ Cardinality(DocsOf(enc.b.bytes)) >= 3
  /\ \E d \in DocsOf(enc.b.bytes) : d[1] > 1 /\ d[1] <= Slack /\ d[2] > Slack + 1

\* C15: the bytes of a document the encoder produced, decoded with
\* perl_mongo_bson_to_sv and encoded again with perl_mongo_sv_to_bson without
\* id insertion, are the same bytes.
C15_RoundTrip ==
  reenc.done => (reenc.b.err = "" /\ reenc.b.bytes = enc.b.bytes)

\* The container at address a holds a reference to the container at b.
Edge(a, b) == Refers(heap[a], b)

\* The containers the document at address 1 reaches.
Reach ==
  {1} \cup {b \in 1..3 : Edge(1, b)}
      \cup {c \in 1..3 : \E b \in 1..3 : Edge(1, b) /\ Edge(b, c)}

\* The container at a contains itself through n references.
OnCycle(a, n) ==
  IF n = 1 THEN Edge(a, a)
  ELSE IF n = 2 THEN \E b \in 1..3 \ {a} : Edge(a, b) /\ Edge(b, a)
  ELSE \E b \in 1..3 \ {a} : \E c \in 1..3 \ {a, b} :
         Edge(a, b) /\ Edge(b, c) /\ Edge(c, a)

Cyclic == \E a \in Reach : \E n \in 1..3 : OnCycle(a, n)

\* The container at address a holds a code value whose scope holds a
\* reference to the container at b.
ScopeEdge(a, b) ==
  \E i \in 1..Len(heap[a].items) :
    /\ heap[a].items[i][2].t = "MongoDB::Code"
    /\ Refers(heap[a].items[i][2], b)

\* The document contains itself through the scope of a code value.
ScopeCyclic ==
  \E a \in Reach : \E b \in 1..3 :
    /\ ScopeEdge(a, b)
    /\ \/ b = a
       \/ Edge(b, a)
       \/ \E c \in 1..3 : Edge(b, c) /\ Edge(c, a)

KeyErrors == {"empty key name", "inserts cannot contain the . character"}

\* No key of the document can be refused, and it has no code scope.
PlainKeys ==
  \A a \in Reach : \A i \in 1..Len(heap[a].items) :
    /\ heap[a].items[i][1] \notin {K_empty, K_dot, K_nul}
    /\ heap[a].items[i][2] \notin {VStr(K_empty), VStr(K_dot), VStr(K_nul)}

\* C16: a document that contains itself, directly or through any chain of
\* hashes, arrays and Tie::IxHash objects, is not encoded: the call fails with
\* the circular-reference error (unless a key was refused first), whatever
\* the length of the cycle, and the encoder never recurses without end
\* (the scope of a code value apart).
C16_CircularFails ==
  /\ (enc.done /\ ~ScopeCyclic) => enc.b.err # "recursion without end"
  /\ (enc.done /\ Cyclic) =>
       /\ enc.b.err \in {"circular ref"} \cup KeyErrors
       /\ PlainKeys => enc.b.err = "circular ref"

\* C16 witness: a document that contains itself through a cycle of length
\* three, made of a hash, an array and a Tie::IxHash, was refused.
C16_Witness ==
  /\ enc.done /\ enc.b.err = "circular ref"
  /\ OnCycle(1, 3) /\ Edge(1, 2)
  /\ {heap[1].t, heap[2].t, heap[3].t} = ContainerTypes

\* The fields of the top-level document as the caller wrote them: the pairs
\* of a hash or a Tie::IxHash, the pairs of elements of a key/value list.
TopFields ==
  IF heap[1].t = "AV"
  THEN [k \in 1..(Len(heap[1].items) \div 2) |->
          <<heap[1].items[2 * k - 1][2].s, heap[1].items[2 * k][2]>>]
  ELSE heap[1].items

\* The position of the document's own "_id" among its fields, 0 if it has
\* none.
TopIdAt ==
  IF \E k \in 1..Len(TopFields) : TopFields[k][1] = K_id
  THEN CHOOSE k \in 1..Len(TopFields) : TopFields[k][1] = K_id
  ELSE 0

\* The value the caller gave for "_id".
TopIdValue == TopFields[TopIdAt][2]

\* The bytes of the first field of an encoded document when it is the object
\* id "_id": type, key, NUL, twelve bytes.
IdField(twelve) == <<BSON_OID>> \o K_id \o <<0>> \o twelve

\* The field of the encoded document that starts at position p.
FieldAt(bytes, p, n) == newSVpvn(bytes, p, n)

\* C17: a top-level encode with an ids array appends exactly one value to
\* it.  A document without "_id" gets a fresh object id, written as the
\* first field, of type object id and named "_id", and that id is the value
\* reported.  A document with "_id" gets no new id and the value reported is
\* the one the caller supplied.
C17_OneIdReported ==
  (Encoded /\ bcfg.ids) =>
    /\ Len(enc.b.ids) = 1
    /\ IF TopIdAt = 0
       THEN /\ enc.b.inc = 1
            /\ FieldAt(enc.b.bytes, INT_32 + 1, 5 + OID_SIZE)
                 = IdField(make_id_bytes(0))
            /\ enc.b.ids[1] = VOid(perl_mongo_make_oid(make_id_bytes(0)))
            /\ enc.b.ids[1].t = "MongoDB::OID"
            /\ [i \in 1..OID_SIZE |->
                  unhex(enc.b.ids[1].s[2 * i - 1]) * 16 + unhex(enc.b.ids[1].s[2 * i])]
                 = FieldAt(enc.b.bytes, INT_32 + 6, OID_SIZE)
       ELSE /\ enc.b.inc = 0
            /\ enc.b.ids[1] = TopIdValue

\* C17 witness: a key/value list with fields but without "_id" was encoded
\* with an ids array and an id was generated for it.
C17_Witness ==
  /\ Encoded /\ bcfg.ids
  /\ heap[1].t = "AV" /\ Len(TopFields) >= 1
  /\ TopIdAt = 0
  /\ Len(enc.b.ids) = 1

\* The names of the fields of an encoded top-level document, in order.
EncodedKeys ==
  LET r == bson_loop(enc.b.bytes, INT_32 + 1,
                     [DefaultFlags EXCEPT !.int64 = bcfg.int64], <<>>, {})
  IN [k \in 1..Len(r.items) |-> r.items[k][1]]

\* The bytes append_sv writes for the field "_id" with the caller's value.
CallerIdField ==
  append_sv(NewBuf(INITIAL_BUF_SIZE, INITIAL_BUF_SIZE, 0, FALSE, 0, bcfg.int64),
            K_id, TopIdValue, <<>>, TRUE, heap, MaxDepth).bytes

\* C18: when the document already has "_id" and ids are enabled, the encoded
\* document carries "_id" where the caller put it among the fields; it is
\* not moved to the front.
C18_IdKeepsPosition ==
  (Encoded /\ bcfg.ids /\ TopIdAt # 0) =>
    /\ EncodedKeys[TopIdAt] = K_id
    /\ \A k \in 1..(TopIdAt - 1) : EncodedKeys[k] # K_id

\* C18, amended: when the document already has "_id" and ids are enabled, the
\* first field of the encoded document is "_id" with the caller's value,
\* wherever the caller put it among the fields.
C18_IdMovedToFront ==
  (Encoded /\ bcfg.ids /\ TopIdAt # 0) =>
    /\ EncodedKeys[1] = K_id
    /\ FieldAt(enc.b.bytes, INT_32 + 1, Len(CallerIdField)) = CallerIdField

\* C18 witness: a hash whose "_id" was not its first field was encoded with
\* ids enabled.
C18_Witness ==
  /\ Encoded /\ bcfg.ids
  /\ heap[1].t = "HV"
  /\ TopIdAt > 1
  /\ EncodedKeys[1] = K_id

\* C19: with ids enabled and the keys of the input unique, the encoded
\* document has exactly one field "_id", whether the input is a hash, a
\* Tie::IxHash or a flat key/value array.
C19_IdOnce ==
  (Encoded /\ bcfg.ids) =>
    Cardinality({k \in 1..Len(EncodedKeys) : EncodedKeys[k] = K_id}) = 1

\* The keys the encoder gives to perl_mongo_serialize_key for a value: the
\* keys of the scope of a code value.
ScopeKeys(v) ==
  IF v.t = "MongoDB::Code" THEN {v.items[i][1] : i \in 1..Len(v.items)} ELSE {}

\* The depths at which the document has the key k: 1 for a field of the
\* top-level document, one more for each container or scope on the way.
DepthsOf(k) ==
  {1 : i \in {j \in 1..Len(TopFields) : TopFields[j][1] = k}}
  \cup {2 : i \in {j \in 1..Len(TopFields) : k \in ScopeKeys(TopFields[j][2])}}
  \cup {IF a = 2 THEN 2 ELSE 3 : a \in {c \in Reach \ {1} :
          heap[c].t # "AV"
          /\ \E i \in 1..Len(heap[c].items) : heap[c].items[i][1] = k}}

\* The croaks that are about a value or the shape of the document, not a key.
ValueErrors ==
  {"odd number of elements in structure", "BigInt is too large",
   "failed to fetch BigInt element"}

\* C20: perl_mongo_serialize_key refuses the empty key in every mode; it
\* refuses a key that contains "." exactly when the encode is insert-style
\* (ids not null), at every depth, and accepts it at every depth when ids is
\* null; the "_id" the encoder generates is never refused.
C20_KeyRules ==
  (/\ enc.done /\ ~Cyclic /\ ~ScopeCyclic /\ DepthsOf(K_nul) = {}
   /\ enc.b.err \notin ValueErrors) =>
    /\ enc.b.err = "empty key name" => DepthsOf(K_empty) # {}
    /\ enc.b.err = "inserts cannot contain the . character" =>
         (bcfg.ids /\ DepthsOf(K_dot) # {})
    /\ DepthsOf(K_empty) # {} => enc.b.err \in KeyErrors
    /\ (bcfg.ids /\ DepthsOf(K_dot) # {}) => enc.b.err \in KeyErrors
    /\ (DepthsOf(K_empty) = {} /\ (bcfg.ids => DepthsOf(K_dot) = {})) =>
         enc.b.err = ""

\* C20 witness: an insert-style encode generated an "_id" and was then
\* refused for a dotted key found only at depth three.
C20_Witness ==
  /\ enc.done /\ bcfg.ids
  /\ enc.b.err = "inserts cannot contain the . character"
  /\ DepthsOf(K_dot) = {3}
  /\ TopIdAt = 0

\* C21: a field key with an embedded NUL byte ends the encode with "key
\* contains null char" on every path, for a hash, a Tie::IxHash and a
\* top-level key/value list; the key is never written cut off at the NUL.
C21_NulKeyRejected ==
  (/\ enc.done /\ DepthsOf(K_nul) # {}
   /\ ~Cyclic /\ DepthsOf(K_empty) = {} /\ DepthsOf(K_dot) = {}) =>
    enc.b.err = "key contains null char"

\* The paths on which C21 holds: a key with an embedded NUL in a hash or a
\* Tie::IxHash, at any depth, is refused.
C21_NulKeyRejectedInHashes ==
  (/\ enc.done /\ DepthsOf(K_nul) # {} /\ heap[1].t # "AV"
   /\ ~Cyclic /\ DepthsOf(K_empty) = {} /\ DepthsOf(K_dot) = {}) =>
    enc.b.err = "key contains null char"

\* C22: an untyped integer is encoded with the width its magnitude needs: a
\* value inside the 32-bit signed range is written with the tag BSON_INT and
\* four little-endian bytes, so the hash with the one field a => 1 is
\* encoded as 0C 00 00 00 10 61 00 01 00 00 00 00.
C22_IntWidthByMagnitude ==
  (/\ Encoded /\ ~bcfg.ids
   /\ Len(TopFields) = 1 /\ TopFields[1][2].t = "IV") =>
    LET key == cstring(TopFields[1][1], 1)
    IN enc.b.bytes = LE32(INT_32 + 1 + Len(key) + 1 + INT_32 + 1)
                       \o <<BSON_INT>> \o key \o <<0>>
                       \o LE32(TopFields[1][2].n) \o <<0>>

\* What the code does instead: the width is the build's.  Where Perl's
\* integers are 64 bits wide every untyped integer is written with the tag
\* BSON_LONG and eight bytes, elsewhere with BSON_INT and four.
C22_IntWidthByBuild ==
  (/\ Encoded /\ ~bcfg.ids
   /\ Len(TopFields) = 1 /\ TopFields[1][2].t = "IV") =>
    LET key == cstring(TopFields[1][1], 1)
        w == IF bcfg.int64 THEN INT_64 ELSE INT_32
    IN enc.b.bytes = LE32(INT_32 + 1 + Len(key) + 1 + w + 1)
                       \o <<IF bcfg.int64 THEN BSON_LONG ELSE BSON_INT>>
                       \o key \o <<0>>
                       \o (IF bcfg.int64 THEN LE64(TopFields[1][2].n)
                           ELSE LE32(TopFields[1][2].n))
                       \o <<0>>

\* C29: a document that contains itself through the scope of a
\* MongoDB::Code value is not encoded: the call ends with the
\* circular-reference error, because the documents being encoded are still
\* on the stack while the scope is encoded.
C29_ScopeCycleFails ==
  (enc.done /\ ScopeCyclic) => enc.b.err = "circular ref"

\* The integer a Math::BigInt stands for: sign * sum of limb_i * (10^k)^i,
\* k = BaseLen.
RECURSIVE BigValue(_, _)
BigValue(av, i) ==
  IF i > Len(av) THEN 0
  ELSE (IF av[i][2].t = "IV" THEN av[i][2].n ELSE atoi(av[i][2].s))
         * pow10(BaseLen * (i - 1))
       + BigValue(av, i + 1)

\* A successful encode of a document whose one field is a Math::BigInt of at
\* most four limbs.
BigEncoded ==
  /\ Encoded /\ ~bcfg.ids
  /\ Len(TopFields) = 1 /\ TopFields[1][2].t = "Math::BigInt"
  /\ Len(TopFields[1][2].items) <= 4

\* C30: a Math::BigInt that fits 64 bits is encoded as a BSON_LONG whose
\* payload is sign * sum of limb_i * (10^k)^i, for either sign and any array
\* of up to four limbs, limbs that are zero or have fewer than k digits
\* included.
C30_BigIntValue ==
  BigEncoded =>
    enc.b.bytes = LE32(INT_32 + 1 + 1 + 1 + INT_64 + 1)
                    \o <<BSON_LONG>> \o K_a \o <<0>>
                    \o LE64(TopFields[1][2].n * BigValue(TopFields[1][2].items, 1))
                    \o <<0>>

\* Where the value is right: one or two limbs, the first with all its k
\* digits.
C30_BigIntTwoFullLimbs ==
  (/\ BigEncoded /\ Len(TopFields[1][2].items) <= 2
   /\ LET v == TopFields[1][2].items[1][2]
      IN IF v.t = "IV" THEN digits(v.n) = BaseLen ELSE Len(v.s) = BaseLen) =>
    enc.b.bytes = LE32(INT_32 + 1 + 1 + 1 + INT_64 + 1)
                    \o <<BSON_LONG>> \o K_a \o <<0>>
                    \o LE64(TopFields[1][2].n * BigValue(TopFields[1][2].items, 1))
                    \o <<0>>

---------------------------------------------------------------------------
(* Properties of the decoder, checked under SpecDec *)

\* The buffer holds whole documents of element types the decoder knows.
WholeDocs ==
  /\ rbuf.buf = Concat(rbuf.docs)
  /\ \A i \in 1..Len(rbuf.docs) : rbuf.docs[i] \in WellFormed

\* C23: a call of perl_mongo_bson_to_sv on a well-formed document advances
\* buf->pos by exactly the length the document declares, whatever the types
\* of its elements (binary subtype 2, code with scope, regular expression,
\* nested documents and arrays, documents inflated to a DBRef), so that a
\* buffer of k documents is decoded by exactly k calls.
C23_AdvancesByLength ==
  WholeDocs =>
    /\ rbuf.err = ""
    /\ Len(rbuf.vals) <= Len(rbuf.docs)
    /\ rbuf.pos = 1 + Len(Concat(SubSeq(rbuf.docs, 1, Len(rbuf.vals))))
    /\ \A i \in 1..Len(rbuf.vals) :
         LET start == 1 + Len(Concat(SubSeq(rbuf.docs, 1, i - 1)))
             stop == 1 + Len(Concat(SubSeq(rbuf.docs, 1, i)))
         IN newSVpvn(rbuf.buf, start, INT_32) = LE32(stop - start)
    /\ (rbuf.pos = Len(rbuf.buf) + 1) <=> (Len(rbuf.vals) = Len(rbuf.docs))

\* C23 witness: two calls decoded a buffer of two documents, the first with
\* a regular expression, the second inflated to a DBRef.
C23_Witness ==
  /\ WholeDocs
  /\ Len(rbuf.docs) = 2 /\ Len(rbuf.vals) = 2
  /\ rbuf.pos = Len(rbuf.buf) + 1
  /\ rbuf.vals[1].t = "HV"
  /\ \E i \in 1..Len(rbuf.vals[1].items) : rbuf.vals[1].items[i][2].t = "Regexp"
  /\ rbuf.vals[2].t = "MongoDB::DBRef"

\* The buffer ends before its document does.
CutShort == rbuf.buf # Concat(rbuf.docs)

\* C24: the decoder checks what a document declares against the bytes left
\* in the buffer: a call on a buffer that ends inside the document, a
\* string or a binary, or lacks the terminating NUL, fails with a
\* truncated-input error, and buf->pos is never moved beyond buf->end.
C24_TruncatedFails ==
  /\ rbuf.pos <= Len(rbuf.buf) + 1
  /\ (CutShort /\ Len(rbuf.vals) > 0) => rbuf.err # ""

\* C26: with inflate_dbrefs, a document is returned as a MongoDB::DBRef
\* exactly when its keys are $ref, $id and optionally $db, in this order and
\* with no other key: the document of two keys and the document of three.
C26_DBRefRecognized ==
  (WholeDocs /\ rbuf.inflate_dbrefs = 1) =>
    \A i \in 1..Len(rbuf.vals) :
      (rbuf.vals[i].t = "MongoDB::DBRef") <=> (rbuf.docs[i] \in {DocRef2, DocRef3})

\* What the code does: only the document of the three keys is inflated, and
\* only when inflate_dbrefs is 1.
C26_DBRefThreeKeys ==
  WholeDocs =>
    \A i \in 1..Len(rbuf.vals) :
      (rbuf.vals[i].t = "MongoDB::DBRef")
        <=> (rbuf.docs[i] = DocRef3 /\ rbuf.inflate_dbrefs = 1)

\* The bytes are not UTF-8: a continuation byte that follows no lead byte.
LoneContinuation(str) ==
  \E i \in 1..Len(str) :
    str[i] \in 128..191 /\ (i = 1 \/ str[i - 1] < 192)

\* The document has one field, a string with the UTF-8 flag whose bytes are
\* not UTF-8.
MalformedString ==
  /\ Len(TopFields) = 1
  /\ TopFields[1][2].t = "PV" /\ TopFields[1][2].n = 1
  /\ LoneContinuation(TopFields[1][2].s)

\* C25: a string field whose bytes are malformed UTF-8 (a lone 0x80) is
\* refused with an invalid-encoding error, when it is encoded and when it
\* is decoded.
C25_InvalidUtf8Fails ==
  /\ (enc.done /\ MalformedString) => enc.b.err # ""
  /\ (dec.done /\ MalformedString) => dec.err # ""

\* What the code does with a string: the bytes of a flagged string are
\* written as they are, a byte string is upgraded, and neither is refused.
C25_StringsNeverRefused ==
  (/\ enc.done /\ ~bcfg.ids /\ Len(TopFields) = 1 /\ TopFields[1][1] = K_a
   /\ TopFields[1][2] \in Strings8) =>
    LET str == IF TopFields[1][2].n = 1 THEN TopFields[1][2].s
               ELSE <<195, 169>>
    IN /\ enc.b.bytes = Doc(El(BSON_STRING, K_a, LE32(Len(str) + 1) \o str \o <<0>>))
       /\ dec.done =>
            (dec.err = "" /\ dec.v.items = <<<<K_a, V("PV", 1, str, <<>>)>>>>)

\* The buffer of an encode: no writer and no reservation of a length left
\* pos beyond end, every resize kept the bytes used and left the room asked
\* for, and the buffer did not shrink.
C27_EncoderBuffer ==
  /\ ~enc.b.over /\ ~enc.b.tight /\ ~reenc.b.over /\ ~reenc.b.tight
  /\ enc.done =>
       /\ enc.b.total >= bcfg.total
       /\ enc.b.used0 = bcfg.used0
       /\ enc.b.used0 + Len(enc.b.bytes) <= enc.b.total

\* The buffer of a cursor: pos is inside it, it does not shrink, and after a
\* successful mongo_link_hear pos is at start and the buffer holds the body
\* of the reply, header.length - 36 >= 0 bytes.
C27_CursorBuffer ==
  /\ 0 <= cursor.buf.pos /\ cursor.buf.pos <= cursor.buf.cap
  /\ cursor.buf.cap >= hist.buf0.cap
  /\ (pc = "idle" /\ hist.ret = "ok") =>
       /\ cursor.buf.pos = 0
       /\ cursor.length >= 0
       /\ cursor.buf.cap >= cursor.length

\* The buffer the decoder reads: pos is inside it.
C27_DecoderBuffer == 1 <= rbuf.pos /\ rbuf.pos <= Len(rbuf.buf) + 1

\* C27: every buffer has start <= pos <= end in every reachable state and
\* never shrinks: a resize keeps the bytes used and leaves the room asked
\* for, the writers and the reservations of a length keep pos <= end, and a
\* successful mongo_link_hear leaves the cursor's buffer with pos = start
\* and room for the reply's body.
C27_BufferInvariant ==
  C27_EncoderBuffer /\ C27_CursorBuffer /\ C27_DecoderBuffer

\* C28: perl_mongo_master returns a socket (not -1) only if link->master is
\* then non-null and connected, whether the link was connected already, was
\* reconnected, or is a copy whose master was fetched again with get_master;
\* and called with auto_reconnect = 0 on a disconnected link that is not a
\* copy, as mongo_link_hear calls it, it returns -1 and does not connect.
C28_MasterSocketConnected ==
  \A ar \in {0, 1}, co \in ConnectOutcomes, gm \in MasterOutcomes :
    LET m == perl_mongo_master(link, ar, co, gm)
    IN /\ m.sock # -1 => (m.link.master = 1 /\ m.link.connected = 1)
       /\ (ar = 0 /\ link.copy = 0 /\ Disconnected(link)) =>
            (m.sock = -1 /\ m.trace = <<>> /\ m.link = link)

\* The same for a link that is not a copy, where it holds.
C28_MasterSocketNotCopy ==
  link.copy = 0 =>
    \A ar \in {0, 1}, co \in ConnectOutcomes, gm \in MasterOutcomes :
      LET m == perl_mongo_master(link, ar, co, gm)
      IN /\ m.sock # -1 => (m.link.master = 1 /\ m.link.connected = 1)
         /\ (ar = 0 /\ Disconnected(link)) =>
              (m.sock = -1 /\ m.trace = <<>> /\ m.link = link)

---------------------------------------------------------------------------
InitLink ==
  link \in [auto_reconnect : {0, 1}, copy : {0}, master : {1},
            connected : {0, 1}, socket : {FD}]
       \cup [auto_reconnect : {0, 1}, copy : {1}, master : {0, 1},
             connected : {0, 1}, socket : {FD}]

InitSay ==
  /\ cur = 1
  /\ wire = [m \in 1..MaxMsgs |-> 0]
  /\ wbytes = [m \in 1..MaxMsgs |-> 0]
  /\ failed = {}
  /\ last = NoSay

InitHearIdle ==
  /\ pc = "idle"
  /\ cursor = NoCursor
  /\ reqId = 2
  /\ rd = 0
  /\ eof = FALSE
  /\ loc = NoLoc
  /\ hist = NoHist
  /\ faults = 0
  /\ hears = 0

\* Nothing connected or disconnected yet; the descriptor of a connected
\* master is open.
InitLife ==
  /\ win32 = FALSE
  /\ fds = IF link.master = 1 /\ link.connected = 1 THEN {link.socket} ELSE {}
  /\ conn = NoConn
  /\ disc = NoDisc

\* No id generated yet: the counter is the static initialiser 0.
InitIdIdle ==
  /\ perl_mongo_inc = 0
  /\ inc_mutex = 0
  /\ idpc = [t \in 1..NThreads |-> "out"]
  /\ idinc = [t \in 1..NThreads |-> 0]
  /\ made = <<>>

\* No document encoded.
InitBsonIdle ==
  /\ heap = <<VCont("HV", 1, <<>>), VCont("HV", 2, <<>>), VCont("HV", 3, <<>>)>>
  /\ bcfg = [total |-> INITIAL_BUF_SIZE, used0 |-> 0, moves |-> FALSE,
             int64 |-> FALSE, ids |-> FALSE]
  /\ enc = NoEnc
  /\ dec = NoDec
  /\ reenc = NoEnc
  /\ rbuf = NoRead

InitExt == InitLife /\ ithreads = TRUE /\ InitIdIdle /\ InitBsonIdle

Init == InitLink /\ InitSay /\ InitHearIdle /\ stream = <<>> /\ InitExt

InitHear ==
  /\ InitLink
  /\ link.auto_reconnect = 1
  /\ link.master = 1
  /\ link.connected = 1
  /\ InitSay
  /\ InitHearIdle
  /\ stream \in Streams
  /\ InitExt

Next == Say \/ Connect

Spec == Init /\ [][Next]_vars

NextHear ==
  \/ HearBegin
  \/ GetHeaderLength
  \/ GetHeaderField
  \/ LoopTest
  \/ DrainSubHeader
  \/ ReaderRecv
  \/ DrainNext
  \/ SubHeaderField
  \/ FlagCheck
  \/ BodyDone

SpecHear == InitHear /\ [][NextHear]_vars

\* Either build, any link.
InitLink2 ==
  /\ InitLink
  /\ InitSay
  /\ InitHearIdle
  /\ stream = <<>>
  /\ win32 \in BOOLEAN
  /\ fds = IF link.master = 1 /\ link.connected = 1 THEN {link.socket} ELSE {}
  /\ conn = NoConn
  /\ disc = NoDisc
  /\ ithreads = TRUE
  /\ InitIdIdle
  /\ InitBsonIdle

NextLink == LinkConnect \/ LinkDisconnect

SpecLink == InitLink2 /\ [][NextLink]_vars

\* Either build of perl; one link, not used.
InitId ==
  /\ link = [auto_reconnect |-> 1, copy |-> 0, master |-> 1, connected |-> 0,
             socket |-> FD]
  /\ InitSay
  /\ InitHearIdle
  /\ stream = <<>>
  /\ InitLife
  /\ ithreads \in BOOLEAN
  /\ InitIdIdle
  /\ InitBsonIdle

NextId ==
  \/ \E t \in Threads : IdLock(t)
  \/ \E t \in Threads : IdRead(t)
  \/ \E t \in Threads : IdWrite(t)
  \/ \E t \in Threads : IdUnlock(t)
  \/ \E t \in Threads : IdFill(t)

SpecId == InitId /\ [][NextId]_vars

\* Any document, buffer and build; ids given or null.
InitBson ==
  /\ link = [auto_reconnect |-> 1, copy |-> 0, master |-> 1, connected |-> 0,
             socket |-> FD]
  /\ InitSay
  /\ InitHearIdle
  /\ stream = <<>>
  /\ InitLife
  /\ ithreads = TRUE
  /\ InitIdIdle
  /\ heap \in Heaps
  /\ bcfg \in {[total |-> c.total, used0 |-> c.used0, moves |-> c.moves,
                 int64 |-> c.int64, ids |-> i] : c \in Configs, i \in BOOLEAN}
  /\ enc = NoEnc
  /\ dec = NoDec
  /\ reenc = NoEnc
  /\ rbuf = NoRead

NextBson == Encode \/ Decode \/ Reencode

SpecBson == InitBson /\ [][NextBson]_vars

\* Any buffer of received documents, whole or cut short, with either
\* setting of inflate_dbrefs; nothing is encoded.
InitDec ==
  /\ link = [auto_reconnect |-> 1, copy |-> 0, master |-> 1, connected |-> 0,
             socket |-> FD]
  /\ InitSay
  /\ InitHearIdle
  /\ stream = <<>>
  /\ InitLife
  /\ ithreads = TRUE
  /\ InitIdIdle
  /\ heap = <<VCont("HV", 1, <<>>), VCont("HV", 2, <<>>), VCont("HV", 3, <<>>)>>
  /\ bcfg = [total |-> INITIAL_BUF_SIZE, used0 |-> 0, moves |-> FALSE,
             int64 |-> FALSE, ids |-> FALSE]
  /\ enc = NoEnc
  /\ dec = NoDec
  /\ reenc = NoEnc
  /\ rbuf \in Received

NextDec == DecodeCall

SpecDec == InitDec /\ [][NextDec]_vars

===========================================================================
